---- MODULE Spec2Model ----
(***************************************************************************)
(* Model of the sfnt package's OS/2 and fvar table decoders                *)
(* (src/sfnt/table_os2.go, src/sfnt/table_fvar.go).                        *)
(*                                                                         *)
(* A buffer is a sequence of bytes (0..255).  A decoder call is one        *)
(* action: it reads the buffer through encoding/binary's Read, exactly as  *)
(* the Go code does, and leaves the returned table, the returned error and *)
(* the reader's position in the state.  The accessors are actions over the *)
(* table the last decode returned.                                         *)
(***************************************************************************)
EXTENDS Integers, Sequences, FiniteSets, TLC

VARIABLES
    buf,        \* the byte slice handed to the last decoder call
    os2,        \* the *TableOS2 the last parseTableOS2 returned, or Nil
    fvar,       \* the *TableFvar the last parseTableFvar returned, or Nil
    err,        \* the error the last decoder call returned ("nil" for none)
    consumed,   \* bytes the decoder's bytes.Buffer r has handed out
    branch,     \* the instance-record branch parseTableFvar's loop entered
    op,         \* the last operation that ran
    out,        \* the value the last accessor returned
    intSize,    \* unsafe.Sizeof of an int on the build's platform (4 or 8)
    SupportedUnicodeRanges,
                \* the package-level catalog slice
    supports,   \* what isSupported returned in each pass of the last
                \* UnicodeRanges loop over the table last decoded
    info,       \* the last Info call: its font, what it decoded, printed, returned
    gor         \* the goroutines of a concurrent run, by id

vars == <<buf, os2, fvar, err, consumed, branch, op, out, intSize,
          SupportedUnicodeRanges, supports, info, gor>>

\* What a decoder or accessor call of one table leaves alone.
elsewhere == <<intSize, SupportedUnicodeRanges, info, gor>>

\* The nil table pointer a failed decode returns (tables are records).
Nil == [nil |-> TRUE]

\* A nil pointer field; a non-nil pointer to v is <<v>>.
NilPtr == <<>>

\* The value of `out` before any accessor has returned.
NoValue == "<none>"

-----------------------------------------------------------------------------
(* Bounds of the model.                                                    *)

\* Bytes appended after the last declared byte of an input buffer.
MaxExtra == 2
\* Largest AxisCount an fvar input declares.
MaxAxisCount == 2
\* Largest InstanceCount an fvar input declares.
MaxInstanceCount == 2

-----------------------------------------------------------------------------
(* Integer helpers: fixed-width arithmetic as Go performs it.              *)

RECURSIVE Pow2(_)
Pow2(n) == IF n = 0 THEN 1 ELSE 2 * Pow2(n - 1)

\* a & b on unsigned operands.
RECURSIVE BitAnd(_, _)
BitAnd(a, b) ==
    IF a = 0 \/ b = 0 THEN 0
    ELSE 2 * BitAnd(a \div 2, b \div 2) + (IF a % 2 = 1 /\ b % 2 = 1 THEN 1 ELSE 0)

\* binary.BigEndian.Uint16/Uint32 generalised: the unsigned value of a byte run.
RECURSIVE BEValue(_)
BEValue(bs) ==
    IF bs = <<>> THEN 0
    ELSE bs[Len(bs)] + 256 * BEValue(SubSeq(bs, 1, Len(bs) - 1))

\* Go's conversion of an n-byte unsigned pattern to the signed type of that width.
ToSigned(v, n) == IF v >= Pow2(8 * n - 1) THEN v - Pow2(8 * n) ELSE v

\* A 32-bit value is held as its two 16-bit halves, most significant first, so
\* that all 32 bits are kept exactly.
Word32(hi, lo) == <<hi, lo>>

ZeroWord32 == Word32(0, 0)

\* The n big-endian bytes of the unsigned value v (what a font file holds for it).
RECURSIVE BEBytes(_, _)
BEBytes(v, n) ==
    IF n = 0 THEN <<>>
    ELSE IF n = 4 THEN BEBytes(v[1], 2) \o BEBytes(v[2], 2)
    ELSE Append(BEBytes(v \div 256, n - 1), v % 256)

-----------------------------------------------------------------------------
(* Struct layouts.  A field is <<name, kind, size, count>>: kind "uint" or *)
(* "int" is a fixed-width integer of `size` bytes, count > 1 an array or a *)
(* nested struct of equally wide members, "slice" and "ptr" a Go slice or  *)
(* pointer (size 0: they have no fixed wire size).                         *)

\* Byte widths of the types declared outside these files.
SizeofTag == 4
SizeofFixed == 4
SizeofNameID == 2

TableOs2OriginalFields == <<
    <<"Version",             "uint", 2, 1>>,
    <<"XAvgCharWidth",       "int",  2, 1>>,
    <<"USWeightClass",       "uint", 2, 1>>,
    <<"USWidthClass",        "uint", 2, 1>>,
    <<"FSType",              "int",  2, 1>>,
    <<"YSubscriptXSize",     "int",  2, 1>>,
    <<"YSubscriptYSize",     "int",  2, 1>>,
    <<"YSubscriptXOffset",   "int",  2, 1>>,
    <<"YSubscriptYOffset",   "int",  2, 1>>,
    <<"YSuperscriptXSize",   "int",  2, 1>>,
    <<"YSuperscriptYSize",   "int",  2, 1>>,
    <<"YSuperscriptXOffset", "int",  2, 1>>,
    <<"YSuperscriptYOffset", "int",  2, 1>>,
    <<"YStrikeoutSize",      "int",  2, 1>>,
    <<"YStrikeoutPosition",  "int",  2, 1>>,
    <<"SFamilyClass",        "int",  2, 1>>,
    <<"Panose",              "uint", 1, 10>>,
    <<"UlUnicodeRange",      "uint", 4, 4>>,
    <<"AchVendID",           "uint", SizeofTag, 1>>,
    <<"FsSelection",         "uint", 2, 1>>,
    <<"FsFirstCharIndex",    "uint", 2, 1>>,
    <<"FsLastCharIndex",     "uint", 2, 1>> >>

TableOs2AdditionalFields == <<
    <<"STypoAscender",    "int",  2, 1>>,
    <<"STypoDescender",   "int",  2, 1>>,
    <<"STypoLineGap",     "int",  2, 1>>,
    <<"UsWinAscent",      "uint", 2, 1>>,
    <<"UsWinDescent",     "uint", 2, 1>>,
    <<"UlCodePageRange1", "uint", 4, 1>>,
    <<"UlCodePageRange2", "uint", 4, 1>>,
    <<"SxHeigh",          "int",  2, 1>>,
    <<"SCapHeight",       "int",  2, 1>>,
    <<"UsDefaultChar",    "uint", 2, 1>>,
    <<"UsBreakChar",      "uint", 2, 1>>,
    <<"UsMaxContext",     "uint", 2, 1>>,
    <<"UsLowerPointSize", "uint", 2, 1>>,
    <<"UsUpperPointSize", "uint", 2, 1>> >>

FieldNames(fields) == {fields[i][1] : i \in 1..Len(fields)}

FieldIndex(fields, name) == CHOOSE i \in 1..Len(fields) : fields[i][1] = name

\* encoding/binary's sizeof of one field: -1 for a type with no fixed size.
sizeofField(f) == IF f[2] \in {"uint", "int"} THEN f[3] * f[4] ELSE -1

\* encoding/binary's sizeof of a struct: the sum of its fields' sizes, or -1 as
\* soon as one field has no fixed size.
RECURSIVE sizeofStruct(_)
sizeofStruct(fields) ==
    IF fields = <<>> THEN 0
    ELSE LET s == sizeofField(Head(fields))
             rest == sizeofStruct(Tail(fields))
         IN  IF s < 0 \/ rest < 0 THEN -1 ELSE s + rest

\* Offset of field i within the struct's wire image.
RECURSIVE fieldOffset(_, _)
fieldOffset(fields, i) ==
    IF i = 1 THEN 0 ELSE fieldOffset(fields, i - 1) + sizeofField(fields[i - 1])

\* The Go zero value of a struct.
ZeroValue(fields) ==
    [n \in FieldNames(fields) |->
        LET f == fields[FieldIndex(fields, n)]
        IN  IF f[2] = "slice" THEN <<>>
            ELSE IF f[2] = "ptr" THEN NilPtr
            ELSE LET z == IF f[3] = 4 THEN ZeroWord32 ELSE 0
                 IN  IF f[4] = 1 THEN z ELSE [k \in 1..f[4] |-> z]]

\* One integer of field f read from the f[3] bytes at 0-based offset off.
decodeInt(f, data, off) ==
    IF f[3] = 4 THEN
        Word32(BEValue(SubSeq(data, off + 1, off + 2)),
               BEValue(SubSeq(data, off + 3, off + 4)))
    ELSE
        LET v == BEValue(SubSeq(data, off + 1, off + f[3]))
        IN  IF f[2] = "int" THEN ToSigned(v, f[3]) ELSE v

\* The decoder's field-by-field fill of a struct from the bytes at offset off.
decodeStruct(fields, data, off) ==
    [n \in FieldNames(fields) |->
        LET i == FieldIndex(fields, n)
            f == fields[i]
            at == off + fieldOffset(fields, i)
        IN  IF f[4] = 1 THEN decodeInt(f, data, at)
            ELSE [k \in 1..f[4] |-> decodeInt(f, data, at + (k - 1) * f[3])]]

\* binary.Read(r, binary.BigEndian, &v) for a struct v, r a bytes.Buffer over
\* data positioned at off.  A struct with no fixed size is refused before any
\* byte is read; otherwise io.ReadFull takes the struct's size from r: io.EOF
\* if r is empty, io.ErrUnexpectedEOF (after draining r) if r is short.
binaryRead(fields, data, off) ==
    LET size == sizeofStruct(fields)
        remaining == Len(data) - off
    IN  IF size < 0 THEN
            [err |-> "binary.Read: invalid type", off |-> off, value |-> ZeroValue(fields)]
        ELSE IF remaining = 0 /\ size > 0 THEN
            [err |-> "EOF", off |-> off, value |-> ZeroValue(fields)]
        ELSE IF remaining < size THEN
            [err |-> "unexpected EOF", off |-> Len(data), value |-> ZeroValue(fields)]
        ELSE
            [err |-> "nil", off |-> off + size, value |-> decodeStruct(fields, data, off)]

-----------------------------------------------------------------------------
(* OS/2 table: src/sfnt/table_os2.go                                       *)

\* parseTableOS2 with the trailing block read unconditionally after the fixed
\* block, its read error returned like the first one.
parseTableOS2_RequireAdditional(data) ==
    LET rd == binaryRead(TableOs2OriginalFields, data, 0)
        ad == binaryRead(TableOs2AdditionalFields, data, rd.off)
    IN  IF rd.err # "nil" THEN
            [table |-> Nil, err |-> rd.err, off |-> rd.off]
        ELSE IF ad.err # "nil" THEN
            [table |-> Nil, err |-> ad.err, off |-> ad.off]
        ELSE
            [table |-> [TableOs2Original |-> rd.value,
                        TableOs2AdditionalFields |-> ad.value,
                        bytes |-> data],
             err |-> "nil", off |-> ad.off]

\* parseTableOS2 retaining only the bytes its reader handed out.
parseTableOS2_KeepConsumed(data) ==
    LET rd == binaryRead(TableOs2OriginalFields, data, 0)
    IN  IF rd.err # "nil" THEN
            [table |-> Nil, err |-> rd.err, off |-> rd.off]
        ELSE
            [table |-> [TableOs2Original |-> rd.value,
                        TableOs2AdditionalFields |-> ZeroValue(TableOs2AdditionalFields),
                        bytes |-> SubSeq(data, 1, rd.off)],
             err |-> "nil", off |-> rd.off]

\* parseTableOS2's result: the table (or Nil), the error and r's position.
parseTableOS2(data) ==
    LET rd == binaryRead(TableOs2OriginalFields, data, 0)
    IN  IF rd.err # "nil" THEN
            [table |-> Nil, err |-> rd.err, off |-> rd.off]
        ELSE
            [table |-> [TableOs2Original |-> rd.value,
                        TableOs2AdditionalFields |-> ZeroValue(TableOs2AdditionalFields),
                        bytes |-> data],
             err |-> "nil", off |-> rd.off]

\* t.Bytes() of a *TableOS2 or a *TableFvar: the retained slice.
Bytes(t) == t.bytes

Digits == <<"0", "1", "2", "3", "4", "5", "6", "7", "8", "9">>

\* strconv.Itoa for a non-negative int: decimal digits, most significant first.
RECURSIVE Itoa(_)
Itoa(n) == IF n < 10 THEN Digits[n + 1] ELSE Itoa(n \div 10) \o Digits[(n % 10) + 1]

\* WeightClass with the 100..900 scale folded onto the nine buckets.
WeightClass_FoldHundreds(t) ==
    LET w == t.TableOs2Original.USWeightClass
        b == IF w % 100 = 0 /\ w \div 100 \in 1..9 THEN w \div 100 ELSE w
    IN  CASE b = 1 -> "Ultra-light"
          [] b = 2 -> "Extra-light"
          [] b = 3 -> "Light"
          [] b = 4 -> "Semi-light"
          [] b = 5 -> "Medium"
          [] b = 6 -> "Semi-bold"
          [] b = 7 -> "Bold"
          [] b = 8 -> "Extra-bold"
          [] b = 9 -> "Ultra-bold"
          [] OTHER -> Itoa(w)

WeightClass(t) ==
    LET w == t.TableOs2Original.USWeightClass
    IN  CASE w = 1 -> "Ultra-light"
          [] w = 2 -> "Extra-light"
          [] w = 3 -> "Light"
          [] w = 4 -> "Semi-light"
          [] w = 5 -> "Medium"
          [] w = 6 -> "Semi-bold"
          [] w = 7 -> "Bold"
          [] w = 8 -> "Extra-bold"
          [] w = 9 -> "Ultra-bold"
          [] OTHER -> Itoa(w)

\* WidthClass with WeightClass's default: the number instead of "Unknown".
WidthClass_NumericDefault(t) ==
    LET w == t.TableOs2Original.USWidthClass
    IN  CASE w = 1 -> "Ultra-condensed"
          [] w = 2 -> "Extra-condensed"
          [] w = 3 -> "Condensed"
          [] w = 4 -> "Semi-condensed"
          [] w = 5 -> "Medium"
          [] w = 6 -> "Semi-expanded"
          [] w = 7 -> "Expanded"
          [] w = 8 -> "Extra-expanded"
          [] w = 9 -> "Ultra-expanded"
          [] OTHER -> Itoa(w)

WidthClass(t) ==
    LET w == t.TableOs2Original.USWidthClass
    IN  CASE w = 1 -> "Ultra-condensed"
          [] w = 2 -> "Extra-condensed"
          [] w = 3 -> "Condensed"
          [] w = 4 -> "Semi-condensed"
          [] w = 5 -> "Medium"
          [] w = 6 -> "Semi-expanded"
          [] w = 7 -> "Expanded"
          [] w = 8 -> "Extra-expanded"
          [] w = 9 -> "Ultra-expanded"
          [] OTHER -> "Unknown"

IsBold(t) == BitAnd(32, t.TableOs2Original.FsSelection) = 32

IsStrikeout(t) == BitAnd(16, t.TableOs2Original.FsSelection) = 16

IsOutlined(t) == BitAnd(8, t.TableOs2Original.FsSelection) = 8

IsNegative(t) == BitAnd(4, t.TableOs2Original.FsSelection) = 4

IsUnderscore(t) == BitAnd(2, t.TableOs2Original.FsSelection) = 2

IsItalic(t) == BitAnd(1, t.TableOs2Original.FsSelection) = 1

\* FontStyle testing the flags in ascending bit order.
FontStyle_BitOrder(t) ==
    IF IsItalic(t) THEN "italic"
    ELSE IF IsUnderscore(t) THEN "underscore"
    ELSE IF IsNegative(t) THEN "negative"
    ELSE IF IsOutlined(t) THEN "outlined"
    ELSE IF IsStrikeout(t) THEN "strikeout"
    ELSE IF IsBold(t) THEN "bold"
    ELSE "normal"

FontStyle(t) ==
    IF IsItalic(t) THEN "italic"
    ELSE IF IsBold(t) THEN "bold"
    ELSE IF IsUnderscore(t) THEN "underscore"
    ELSE IF IsOutlined(t) THEN "outlined"
    ELSE IF IsStrikeout(t) THEN "strikeout"
    ELSE IF IsNegative(t) THEN "negative"
    ELSE "normal"

-----------------------------------------------------------------------------
(* Unicode range catalog.  The package-level UnicodeSupport variables, by  *)
(* name.  table_fvar.go declares all of them; table_os2.go declares the    *)
(* first 40 (BasicLatin .. MiscellaneousTechnical) with the same values.   *)

UnicodeSupportVars == [
    BasicLatin |->
        [BitIndex |-> 0, Name |-> "Basic Latin",
         UnicodeRanges |-> <<"0000-007F">>],
    Latin1Supplement |->
        [BitIndex |-> 1, Name |-> "Latin-1 Supplement",
         UnicodeRanges |-> <<"0080-00FF">>],
    LatinExtendedA |->
        [BitIndex |-> 2, Name |-> "Latin Extended-A",
         UnicodeRanges |-> <<"0100-017F">>],
    LatinExtendedB |->
        [BitIndex |-> 3, Name |-> "Latin Extended-B",
         UnicodeRanges |-> <<"0180-024F">>],
    IPAPhonetic |->
        [BitIndex |-> 4, Name |-> "IPA & Phonetic Extensions/Supplements",
         UnicodeRanges |-> <<"0250-02AF", "1D00-1D7F", "1D80-1DBF">>],
    SpacingModifierLetters |->
        [BitIndex |-> 5, Name |-> "Spacing Modifier Letters",
         UnicodeRanges |-> <<"02B0-02FF", "A700-A71F">>],
    CombiningDiacriticalMarks |->
        [BitIndex |-> 6, Name |-> "Combining Diacritical Marks & Supplements",
         UnicodeRanges |-> <<"0300-036F", "1DC0-1DFF">>],
    GreekCoptic |->
        [BitIndex |-> 7, Name |-> "Greek and Coptic",
         UnicodeRanges |-> <<"0370-03FF">>],
    Coptic |->
        [BitIndex |-> 8, Name |-> "Coptic",
         UnicodeRanges |-> <<"2C80-2CFF">>],
    Cyrillic |->
        [BitIndex |-> 9, Name |-> "Cyrillic",
         UnicodeRanges |-> <<"0400-04FF", "0500-052F", "2DE0-2DFF", "A640-A69F">>],
    Armenian |->
        [BitIndex |-> 10, Name |-> "Armenian",
         UnicodeRanges |-> <<"0530-058F">>],
    Hebrew |->
        [BitIndex |-> 11, Name |-> "Hebrew",
         UnicodeRanges |-> <<"0590-05FF">>],
    Vai |->
        [BitIndex |-> 12, Name |-> "Vai",
         UnicodeRanges |-> <<"A500-A63F">>],
    Arabic |->
        [BitIndex |-> 13, Name |-> "Arabic",
         UnicodeRanges |-> <<"0600-06FF", "0750-077F">>],
    NKo |->
        [BitIndex |-> 14, Name |-> "NKo",
         UnicodeRanges |-> <<"07C0-07FF">>],
    Devanagari |->
        [BitIndex |-> 15, Name |-> "Devanagari",
         UnicodeRanges |-> <<"0900-097F">>],
    Bengali |->
        [BitIndex |-> 16, Name |-> "Bengali",
         UnicodeRanges |-> <<"0980-09FF">>],
    Gurmukhi |->
        [BitIndex |-> 17, Name |-> "Gurmukhi",
         UnicodeRanges |-> <<"0A00-0A7F">>],
    Gujarati |->
        [BitIndex |-> 18, Name |-> "Gujarati",
         UnicodeRanges |-> <<"0A80-0AFF">>],
    Oriya |->
        [BitIndex |-> 19, Name |-> "Oriya",
         UnicodeRanges |-> <<"0B00-0B7F">>],
    Tamil |->
        [BitIndex |-> 20, Name |-> "Tamil",
         UnicodeRanges |-> <<"0B80-0BFF">>],
    Telugu |->
        [BitIndex |-> 21, Name |-> "Telugu",
         UnicodeRanges |-> <<"0C00-0C7F">>],
    Kannada |->
        [BitIndex |-> 22, Name |-> "Kannada",
         UnicodeRanges |-> <<"0C80-0CFF">>],
    Malayalam |->
        [BitIndex |-> 23, Name |-> "Malayalam",
         UnicodeRanges |-> <<"0D00-0D7F">>],
    Thai |->
        [BitIndex |-> 24, Name |-> "Thai",
         UnicodeRanges |-> <<"0E00-0E7F">>],
    Lao |->
        [BitIndex |-> 25, Name |-> "Lao",
         UnicodeRanges |-> <<"0E80-0EFF">>],
    Georgian |->
        [BitIndex |-> 26, Name |-> "Georgian and supplement",
         UnicodeRanges |-> <<"10A0-10FF", "2D00-2D2F">>],
    Balinese |->
        [BitIndex |-> 27, Name |-> "Balinese",
         UnicodeRanges |-> <<"1B00-1B7F">>],
    HangulJamo |->
        [BitIndex |-> 28, Name |-> "Hangul Jamo",
         UnicodeRanges |-> <<"1100-11FF">>],
    LatinExtendedAdditional |->
        [BitIndex |-> 29, Name |-> "Latin Extended Additional",
         UnicodeRanges |-> <<"1E00-1EFF", "2C60-2C7F", "A720-A7FF">>],
    GreekExtended |->
        [BitIndex |-> 30, Name |-> "Greek Extended",
         UnicodeRanges |-> <<"1F00-1FFF">>],
    GeneralPunctuation |->
        [BitIndex |-> 31, Name |-> "General & Supplemental Punctuation",
         UnicodeRanges |-> <<"2000-206F", "2E00-2E7F">>],
    SuperAndSubScripts |->
        [BitIndex |-> 32, Name |-> "Superscripts And Subscripts",
         UnicodeRanges |-> <<"2070-209F">>],
    CurrencySymbols |->
        [BitIndex |-> 33, Name |-> "Currency Symbols",
         UnicodeRanges |-> <<"20A0-20CF">>],
    CDMSymbols |->
        [BitIndex |-> 34, Name |-> "Combining Diacritical Marks For Symbols",
         UnicodeRanges |-> <<"20D0-20FF">>],
    LetterlikeSymbols |->
        [BitIndex |-> 35, Name |-> "Letterlike Symbols",
         UnicodeRanges |-> <<"2100-214F">>],
    NumberForms |->
        [BitIndex |-> 36, Name |-> "Number Forms",
         UnicodeRanges |-> <<"2150-218F">>],
    Arrows |->
        [BitIndex |-> 37, Name |-> "Arrows",
         UnicodeRanges |-> <<"2190-21FF", "27F0-27FF", "2900-297F", "2B00-2BFF">>],
    MathematicalOperators |->
        [BitIndex |-> 38, Name |-> "Mathematical Operators",
         UnicodeRanges |-> <<"2200-22FF", "2A00-2AFF", "27C0-27EF", "2980-29FF">>],
    MiscellaneousTechnical |->
        [BitIndex |-> 39, Name |-> "Miscellaneous Technical",
         UnicodeRanges |-> <<"2300-23FF">>],
    ControlPictures |->
        [BitIndex |-> 40, Name |-> "Control Pictures",
         UnicodeRanges |-> <<"2400-243F">>],
    OpticalCharacterRecognition |->
        [BitIndex |-> 41, Name |-> "Optical Character Recognition",
         UnicodeRanges |-> <<"2440-245F">>],
    EnclosedAlphanumerics |->
        [BitIndex |-> 42, Name |-> "Enclosed Alphanumerics",
         UnicodeRanges |-> <<"2460-24FF">>],
    BoxDrawing |->
        [BitIndex |-> 43, Name |-> "Box Drawing",
         UnicodeRanges |-> <<"2500-257F">>],
    BlockElements |->
        [BitIndex |-> 44, Name |-> "Block Elements",
         UnicodeRanges |-> <<"2580-259F">>],
    GeometricShapes |->
        [BitIndex |-> 45, Name |-> "Geometric Shapes",
         UnicodeRanges |-> <<"25A0-25FF">>],
    MiscellaneousSymbols |->
        [BitIndex |-> 46, Name |-> "Miscellaneous Symbols",
         UnicodeRanges |-> <<"2600-26FF">>],
    Dingbats |->
        [BitIndex |-> 47, Name |-> "Dingbats",
         UnicodeRanges |-> <<"2700-27BF">>],
    CJKSymbolsPunctuation |->
        [BitIndex |-> 48, Name |-> "CJK Symbols And Punctuation",
         UnicodeRanges |-> <<"3000-303F">>],
    Hiragana |->
        [BitIndex |-> 49, Name |-> "Hiragana",
         UnicodeRanges |-> <<"3040-309F">>],
    Katakana |->
        [BitIndex |-> 50, Name |-> "Katakana & Phonetic Extensions",
         UnicodeRanges |-> <<"30A0-30FF", "31F0-31FF">>],
    Bopomofo |->
        [BitIndex |-> 51, Name |-> "Bopomofo & Extended",
         UnicodeRanges |-> <<"3100-312F", "31A0-31BF">>],
    HangulCompatibilityJamo |->
        [BitIndex |-> 52, Name |-> "Hangul Compatibility Jamo",
         UnicodeRanges |-> <<"3130-318F">>],
    PhagsPa |->
        [BitIndex |-> 53, Name |-> "Phags-pa",
         UnicodeRanges |-> <<"A840-A87F">>],
    EnclosedCJKLettersMonths |->
        [BitIndex |-> 54, Name |-> "Enclosed CJK Letters And Months",
         UnicodeRanges |-> <<"3200-32FF">>],
    CJKCompatibility |->
        [BitIndex |-> 55, Name |-> "CJK Compatibility",
         UnicodeRanges |-> <<"3300-33FF">>],
    HangulSyllables |->
        [BitIndex |-> 56, Name |-> "Hangul Syllables",
         UnicodeRanges |-> <<"AC00-D7AF">>],
    NonPlane0 |->
        [BitIndex |-> 57, Name |-> "Non-Plane 0",
         UnicodeRanges |-> <<"10000-10FFFF">>],
    Phoenician |->
        [BitIndex |-> 58, Name |-> "Phoenician",
         UnicodeRanges |-> <<"10900-1091F">>],
    CJKIdeographsRadicals |->
        [BitIndex |-> 59, Name |-> "CJK Ideographs & Radicals",
         UnicodeRanges |-> <<"4E00-9FFF", "2E80-2EFF", "2F00-2FDF", "2FF0-2FFF", "3400-4DBF", "20000-2A6DF", "3190-319F">>],
    PrivateUseAreaPlane0 |->
        [BitIndex |-> 60, Name |-> "Private Use Area  Plane 0",
         UnicodeRanges |-> <<"E000-F8FF">>],
    CJKStrokes |->
        [BitIndex |-> 61, Name |-> "CJK Strokes",
         UnicodeRanges |-> <<"31C0-31EF", "F900-FAFF", "2F800-2FA1F">>],
    AlphabeticPresentationForms |->
        [BitIndex |-> 62, Name |-> "Alphabetic Presentation Forms",
         UnicodeRanges |-> <<"FB00-FB4F">>],
    ArabicPresentationFormsA |->
        [BitIndex |-> 63, Name |-> "Arabic Presentation Forms-A",
         UnicodeRanges |-> <<"FB50-FDFF">>],
    CombiningHalfMarks |->
        [BitIndex |-> 64, Name |-> "Combining Half Marks",
         UnicodeRanges |-> <<"FE20-FE2F">>],
    VerticalForms |->
        [BitIndex |-> 65, Name |-> "Vertical Forms",
         UnicodeRanges |-> <<"FE10-FE1F", "FE30-FE4F">>],
    SmallFormVariants |->
        [BitIndex |-> 66, Name |-> "Small Form Variants",
         UnicodeRanges |-> <<"FE50-FE6F">>],
    ArabicPresentationFormsB |->
        [BitIndex |-> 67, Name |-> "Arabic Presentation Forms-B",
         UnicodeRanges |-> <<"FE70-FEFF">>],
    HalfwidthFullwidthForms |->
        [BitIndex |-> 68, Name |-> "Halfwidth And Fullwidth Forms",
         UnicodeRanges |-> <<"FF00-FFEF">>],
    Specials |->
        [BitIndex |-> 69, Name |-> "Specials",
         UnicodeRanges |-> <<"FFF0-FFFF">>],
    Tibetan |->
        [BitIndex |-> 70, Name |-> "Tibetan",
         UnicodeRanges |-> <<"0F00-0FFF">>],
    Syriac |->
        [BitIndex |-> 71, Name |-> "Syriac",
         UnicodeRanges |-> <<"0700-074F">>],
    Thaana |->
        [BitIndex |-> 72, Name |-> "Thaana",
         UnicodeRanges |-> <<"0780-07BF">>],
    Sinhala |->
        [BitIndex |-> 73, Name |-> "Sinhala",
         UnicodeRanges |-> <<"0D80-0DFF">>],
    Myanmar |->
        [BitIndex |-> 74, Name |-> "Myanmar",
         UnicodeRanges |-> <<"1000-109F">>],
    Ethiopic |->
        [BitIndex |-> 75, Name |-> "Ethiopic",
         UnicodeRanges |-> <<"1200-137F", "1380-139F", "2D80-2DDF">>],
    Cherokee |->
        [BitIndex |-> 76, Name |-> "Cherokee",
         UnicodeRanges |-> <<"13A0-13FF">>],
    UnifiedCanadianAboriginalSyllabics |->
        [BitIndex |-> 77, Name |-> "Unified Canadian Aboriginal Syllabics",
         UnicodeRanges |-> <<"1400-167F">>],
    Runic |->
        [BitIndex |-> 79, Name |-> "Runic",
         UnicodeRanges |-> <<"16A0-16FF">>],
    Khmer |->
        [BitIndex |-> 80, Name |-> "Khmer",
         UnicodeRanges |-> <<"1780-17FF", "19E0-19FF">>],
    Mongolian |->
        [BitIndex |-> 81, Name |-> "Mongolian",
         UnicodeRanges |-> <<"1800-18AF">>],
    BraillePatterns |->
        [BitIndex |-> 82, Name |-> "Braille Patterns",
         UnicodeRanges |-> <<"2800-28FF">>],
    YiSyllablesRadicals |->
        [BitIndex |-> 83, Name |-> "Yi Syllables & Radicals",
         UnicodeRanges |-> <<"A000-A48F", "A490-A4CF">>],
    TagalogRelated |->
        [BitIndex |-> 84, Name |-> "Tagalog And Related",
         UnicodeRanges |-> <<"1700-171F", "1720-173F", "1740-175F", "1760-177F">>],
    OldItalic |->
        [BitIndex |-> 85, Name |-> "Old Italic",
         UnicodeRanges |-> <<"10300-1032F">>],
    Gothic |->
        [BitIndex |-> 86, Name |-> "Gothic",
         UnicodeRanges |-> <<"10330-1034F">>],
    Deseret |->
        [BitIndex |-> 87, Name |-> "Deseret",
         UnicodeRanges |-> <<"10400-1044F">>],
    MusicalSymbols |->
        [BitIndex |-> 88, Name |-> "Sinhala",
         UnicodeRanges |-> <<"1D000-1D0FF", "1D100-1D1FF", "1D200-1D24F">>],
    MathematicalAlphanumericSymbols |->
        [BitIndex |-> 89, Name |-> "Mathematical Alphanumeric Symbols",
         UnicodeRanges |-> <<"1D400-1D7FF">>],
    PrivateUsePlane1516 |->
        [BitIndex |-> 90, Name |-> "Private Use (plane 15 & 16)",
         UnicodeRanges |-> <<"F0000-FFFFD", "100000-10FFFD">>],
    VariationSelectors |->
        [BitIndex |-> 91, Name |-> "Variation Selectors",
         UnicodeRanges |-> <<"FE00-FE0F", "E0100-E01EF">>],
    Tags |->
        [BitIndex |-> 92, Name |-> "Tags",
         UnicodeRanges |-> <<"E0000-E007F">>],
    Limbu |->
        [BitIndex |-> 93, Name |-> "Limbu",
         UnicodeRanges |-> <<"1900-194F">>],
    TaiLe |->
        [BitIndex |-> 94, Name |-> "Tai Le",
         UnicodeRanges |-> <<"1950-197F">>],
    NewTaiLue |->
        [BitIndex |-> 95, Name |-> "New Tai Lue",
         UnicodeRanges |-> <<"1980-19DF">>],
    Buginese |->
        [BitIndex |-> 96, Name |-> "Buginese",
         UnicodeRanges |-> <<"1A00-1A1F">>],
    Glagolitic |->
        [BitIndex |-> 97, Name |-> "Glagolitic",
         UnicodeRanges |-> <<"2C00-2C5F">>],
    Tifinagh |->
        [BitIndex |-> 98, Name |-> "Tifinagh",
         UnicodeRanges |-> <<"2D30-2D7F">>],
    YijingHexagramSymbols |->
        [BitIndex |-> 99, Name |-> "Yijing Hexagram Symbols",
         UnicodeRanges |-> <<"4DC0-4DFF">>],
    SylotiNagri |->
        [BitIndex |-> 100, Name |-> "Syloti Nagri",
         UnicodeRanges |-> <<"A800-A82F">>],
    LinearBAegean |->
        [BitIndex |-> 101, Name |-> "Linear B Syllabary & Aegean",
         UnicodeRanges |-> <<"10000-1007F", "10080-100FF", "10100-1013F">>],
    AncientGreekNumbers |->
        [BitIndex |-> 102, Name |-> "Ancient Greek Numbers",
         UnicodeRanges |-> <<"10140-1018F">>],
    Ugaritic |->
        [BitIndex |-> 103, Name |-> "Ugaritic",
         UnicodeRanges |-> <<"10380-1039F">>],
    OldPersian |->
        [BitIndex |-> 104, Name |-> "Old Persian",
         UnicodeRanges |-> <<"103A0-103DF">>],
    Shavian |->
        [BitIndex |-> 105, Name |-> "Shavian",
         UnicodeRanges |-> <<"10450-1047F">>],
    Osmanya |->
        [BitIndex |-> 106, Name |-> "Osmanya",
         UnicodeRanges |-> <<"10480-104AF">>],
    CypriotSyllabary |->
        [BitIndex |-> 107, Name |-> "Cypriot Syllabary",
         UnicodeRanges |-> <<"10800-1083F">>],
    Kharoshthi |->
        [BitIndex |-> 108, Name |-> "Kharoshthi",
         UnicodeRanges |-> <<"10A00-10A5F">>],
    TaiXuanJingSymbols |->
        [BitIndex |-> 109, Name |-> "Tai Xuan Jing Symbols",
         UnicodeRanges |-> <<"1D300-1D35F">>],
    Cuneiform |->
        [BitIndex |-> 110, Name |-> "Cuneiform",
         UnicodeRanges |-> <<"12000-123FF", "12400-1247F">>],
    CountingRodNumerals |->
        [BitIndex |-> 111, Name |-> "Counting Rod Numerals",
         UnicodeRanges |-> <<"1D360-1D37F">>],
    Sundanese |->
        [BitIndex |-> 112, Name |-> "Sundanese",
         UnicodeRanges |-> <<"1B80-1BBF">>],
    Lepcha |->
        [BitIndex |-> 113, Name |-> "Lepcha",
         UnicodeRanges |-> <<"1C00-1C4F">>],
    OlChiki |->
        [BitIndex |-> 114, Name |-> "Ol Chiki",
         UnicodeRanges |-> <<"1C50-1C7F">>],
    Saurashtra |->
        [BitIndex |-> 115, Name |-> "Saurashtra",
         UnicodeRanges |-> <<"A880-A8DF">>],
    KayahLi |->
        [BitIndex |-> 116, Name |-> "Kayah Li",
         UnicodeRanges |-> <<"A900-A92F">>],
    Rejang |->
        [BitIndex |-> 117, Name |-> "Rejang",
         UnicodeRanges |-> <<"A930-A95F">>],
    Cham |->
        [BitIndex |-> 118, Name |-> "Cham",
         UnicodeRanges |-> <<"AA00-AA5F">>],
    AncientSymbols |->
        [BitIndex |-> 119, Name |-> "Ancient Symbols",
         UnicodeRanges |-> <<"10190-101CF">>],
    PhaistosDisc |->
        [BitIndex |-> 120, Name |-> "Phaistos Disc",
         UnicodeRanges |-> <<"101D0-101FF">>],
    CarianLycianLydian |->
        [BitIndex |-> 121, Name |-> "Carian Lycian Lydian",
         UnicodeRanges |-> <<"102A0-102DF", "10280-1029F", "10920-1093F">>],
    DominoMahjong |->
        [BitIndex |-> 122, Name |-> "Domino & Mahjong Tiles",
         UnicodeRanges |-> <<"1F030-1F09F", "1F000-1F02F">>] ]

\* The variable MusicalSymbols carrying, besides Sinhala's name, Sinhala's bit.
UnicodeSupportVar_CopiedBit(name) ==
    IF name = "MusicalSymbols"
    THEN [UnicodeSupportVars[name] EXCEPT !.BitIndex = UnicodeSupportVars["Sinhala"].BitIndex]
    ELSE UnicodeSupportVars[name]

\* The value of the package-level variable `name`.
UnicodeSupportVar(name) == UnicodeSupportVars[name]

\* SupportedUnicodeRanges as table_fvar.go lists it.
SupportedUnicodeRangesNames == <<
    "BasicLatin", "Latin1Supplement", "LatinExtendedA", "LatinExtendedB", "IPAPhonetic",
    "SpacingModifierLetters", "CombiningDiacriticalMarks", "GreekCoptic", "Coptic", "Cyrillic",
    "Armenian", "Hebrew", "Arabic", "Vai", "NKo", "Devanagari", "Bengali", "Gurmukhi",
    "Gujarati", "Oriya", "Tamil", "Telugu", "Kannada", "Malayalam", "Thai", "Lao", "Georgian",
    "Balinese", "HangulJamo", "LatinExtendedAdditional", "GreekExtended", "GeneralPunctuation",
    "SuperAndSubScripts", "CurrencySymbols", "CDMSymbols", "LetterlikeSymbols", "NumberForms",
    "Arrows", "MathematicalOperators", "MiscellaneousTechnical", "ControlPictures",
    "OpticalCharacterRecognition", "EnclosedAlphanumerics", "BoxDrawing", "BlockElements",
    "GeometricShapes", "MiscellaneousSymbols", "Dingbats", "CJKSymbolsPunctuation", "Hiragana",
    "Katakana", "Bopomofo", "HangulCompatibilityJamo", "PhagsPa", "EnclosedCJKLettersMonths",
    "CJKCompatibility", "HangulSyllables", "NonPlane0", "Phoenician", "CJKIdeographsRadicals",
    "PrivateUseAreaPlane0", "CJKStrokes", "AlphabeticPresentationForms",
    "ArabicPresentationFormsA", "CombiningHalfMarks", "SmallFormVariants", "VerticalForms",
    "ArabicPresentationFormsB", "HalfwidthFullwidthForms", "Specials", "Tibetan", "Syriac",
    "Thaana", "Sinhala", "Myanmar", "Ethiopic", "Cherokee",
    "UnifiedCanadianAboriginalSyllabics", "Runic", "Khmer", "Mongolian", "YiSyllablesRadicals",
    "BraillePatterns", "TagalogRelated", "OldItalic", "Gothic", "MusicalSymbols", "Deseret",
    "MathematicalAlphanumericSymbols", "PrivateUsePlane1516", "VariationSelectors", "Tags",
    "Limbu", "TaiLe", "NewTaiLue", "Glagolitic", "Tifinagh", "Buginese",
    "YijingHexagramSymbols", "SylotiNagri", "LinearBAegean", "AncientGreekNumbers", "Ugaritic",
    "OldPersian", "Shavian", "Osmanya", "CypriotSyllabary", "Kharoshthi", "TaiXuanJingSymbols",
    "Cuneiform", "CountingRodNumerals", "Sundanese", "Lepcha", "OlChiki", "Saurashtra",
    "KayahLi", "Rejang", "Cham", "AncientSymbols", "PhaistosDisc", "CarianLycianLydian",
    "DominoMahjong" >>

\* SupportedUnicodeRanges as table_os2.go lists it.
SupportedUnicodeRangesNamesOS2 == <<
    "BasicLatin", "Latin1Supplement", "LatinExtendedA", "LatinExtendedB", "IPAPhonetic",
    "SpacingModifierLetters", "CombiningDiacriticalMarks", "GreekCoptic", "Coptic", "Cyrillic",
    "Armenian", "Hebrew", "Arabic", "Vai", "NKo", "Devanagari", "Bengali", "Gurmukhi",
    "Gujarati", "Oriya", "Tamil", "Telugu", "Kannada", "Malayalam", "Thai", "Lao", "Georgian",
    "Balinese", "HangulJamo", "LatinExtendedAdditional", "GreekExtended", "GeneralPunctuation",
    "SuperAndSubScripts", "CurrencySymbols", "CDMSymbols", "LetterlikeSymbols", "NumberForms",
    "Arrows", "MathematicalOperators", "MiscellaneousTechnical" >>

\* The slice a list of variable names initialises SupportedUnicodeRanges to.
catalogOf(names) == [i \in 1..Len(names) |-> UnicodeSupportVar(names[i])]

\* The values SupportedUnicodeRanges can hold at process start, by the file
\* whose declaration the build uses.
InitialCatalogs == {catalogOf(SupportedUnicodeRangesNames),
                    catalogOf(SupportedUnicodeRangesNamesOS2)}

\* math.Exp2(float64(e)) converted to uint32, for e in 0..31: the float64 power
\* of two is exact and below 2^32, so the conversion keeps it.
exp2Uint32(e) == IF e < 16 THEN Word32(0, Pow2(e)) ELSE Word32(Pow2(e - 16), 0)

\* a & b on uint32 operands.
BitAnd32(a, b) == Word32(BitAnd(a[1], b[1]), BitAnd(a[2], b[2]))

\* isSupported indexing the words from the most significant end.
isSupported_WordsReversed(s, unicodeRangeMask) ==
    LET applicableBitMaskIndex == 3 - (s.BitIndex \div 32)
        exponentValue == s.BitIndex % 32
    IN  BitAnd32(exp2Uint32(exponentValue),
                 unicodeRangeMask[applicableBitMaskIndex + 1]) # ZeroWord32

\* s.isSupported(unicodeRangeMask); the mask is indexed from 0 in Go.
isSupported(s, unicodeRangeMask) ==
    LET applicableBitMaskIndex == s.BitIndex \div 32
        exponentValue == s.BitIndex % 32
    IN  BitAnd32(exp2Uint32(exponentValue),
                 unicodeRangeMask[applicableBitMaskIndex + 1]) # ZeroWord32

\* "U+" + r for each r of one entry.
RECURSIVE prefixed(_)
prefixed(rs) == IF rs = <<>> THEN <<>> ELSE <<"U+" \o Head(rs)>> \o prefixed(Tail(rs))

\* What passes lo..hi of a loop append to a slice, pass i appending pieces[i].
RECURSIVE appended(_, _, _)
appended(pieces, lo, hi) ==
    IF lo > hi THEN <<>>
    ELSE IF lo = hi THEN pieces[lo]
    ELSE LET mid == (lo + hi) \div 2
         IN  appended(pieces, lo, mid) \o appended(pieces, mid + 1, hi)

\* UnicodeRanges going through the bit indexes in ascending order instead of
\* through the catalog.
UnicodeRanges_SortedByBit(t, catalog) ==
    LET hit(b) == {i \in 1..Len(catalog) :
                     /\ catalog[i].BitIndex = b
                     /\ isSupported(catalog[i], t.TableOs2Original.UlUnicodeRange)}
        pieces == [k \in 1..128 |->
                     IF hit(k - 1) = {} THEN <<>>
                     ELSE prefixed(catalog[CHOOSE i \in hit(k - 1) : TRUE].UnicodeRanges)]
    IN  appended(pieces, 1, 128)

\* UnicodeRanges appending the bare catalog strings.
UnicodeRanges_NoPrefix(t, catalog) ==
    LET pieces == [i \in 1..Len(catalog) |->
                     IF isSupported(catalog[i], t.TableOs2Original.UlUnicodeRange)
                     THEN catalog[i].UnicodeRanges
                     ELSE <<>>]
    IN  appended(pieces, 1, Len(catalog))

\* t.UnicodeRanges() over the catalog SupportedUnicodeRanges holds: one pass
\* per catalog entry, in the slice's order.
UnicodeRanges(t, catalog) ==
    LET pieces == [i \in 1..Len(catalog) |->
                     IF isSupported(catalog[i], t.TableOs2Original.UlUnicodeRange)
                     THEN prefixed(catalog[i].UnicodeRanges)
                     ELSE <<>>]
    IN  appended(pieces, 1, Len(catalog))

\* The value isSupported returns in each pass of UnicodeRanges' loop.
supportedPasses(t, catalog) ==
    [i \in 1..Len(catalog) |-> isSupported(catalog[i], t.TableOs2Original.UlUnicodeRange)]

-----------------------------------------------------------------------------
(* OS/2 input buffers: the wire image of an OS/2 table as a font file      *)
(* holds it, cut or extended to a chosen length.                           *)

\* The wire image of field values vals laid out per fields.
RECURSIVE encodeFrom(_, _, _)
encodeFrom(fields, vals, i) ==
    IF i > Len(fields) THEN <<>>
    ELSE LET f == fields[i]
             v == vals[f[1]]
             one == IF f[4] = 1 THEN BEBytes(v, f[3])
                    ELSE LET RECURSIVE arr(_)
                             arr(k) == IF k > f[4] THEN <<>>
                                       ELSE BEBytes(v[k], f[3]) \o arr(k + 1)
                         IN  arr(1)
         IN  one \o encodeFrom(fields, vals, i + 1)

encodeStruct(fields, vals) == encodeFrom(fields, vals, 1)

\* The fixed block of a regular, upright, weight-400 font.
BaseOriginal ==
    [n \in FieldNames(TableOs2OriginalFields) |->
        CASE n = "Version" -> 4
          [] n = "XAvgCharWidth" -> 65036         \* -500 as int16
          [] n = "USWeightClass" -> 400
          [] n = "USWidthClass" -> 5
          [] n = "Panose" -> <<2, 11, 6, 4, 2, 2, 2, 2, 2, 4>>
          [] n = "UlUnicodeRange" ->
                <<Word32(0, 3), ZeroWord32, ZeroWord32, ZeroWord32>>
          [] n = "AchVendID" -> Word32(18500, 19792)      \* "HDMP"
          [] n = "FsSelection" -> 64
          [] n = "FsFirstCharIndex" -> 32
          [] n = "FsLastCharIndex" -> 65535
          [] n = "YStrikeoutSize" -> 50
          [] OTHER -> 0]

\* A trailing block whose fields are all non-zero.
BaseAdditional ==
    [n \in FieldNames(TableOs2AdditionalFields) |->
        CASE n = "STypoAscender" -> 256
          [] n = "STypoDescender" -> 65336        \* -200 as int16
          [] n = "UlCodePageRange1" -> Word32(32768, 1)
          [] n = "UlCodePageRange2" -> Word32(0, 7)
          [] OTHER -> 1 + FieldIndex(TableOs2AdditionalFields, n)]

\* The selection-flag values decoded: every combination of bits 0-5, alone and
\* under bit 6, bit 15 and all of bits 6-15.
SelectionValues == {lo + hi : lo \in 0..63, hi \in {0, 64, 32768, 65472}}

\* The USWeightClass / USWidthClass values decoded.
ClassValues == 0..10 \cup {99, 100, 400, 700, 900, 1000, 1001, 32768, 65535}

OS2Originals ==
    {[BaseOriginal EXCEPT !.FsSelection = s] : s \in SelectionValues}
    \cup {[BaseOriginal EXCEPT !.USWeightClass = w] : w \in ClassValues}
    \cup {[BaseOriginal EXCEPT !.USWidthClass = w] : w \in ClassValues}

OS2FixedLen == Len(encodeStruct(TableOs2OriginalFields, BaseOriginal))

OS2FullLen == OS2FixedLen + Len(encodeStruct(TableOs2AdditionalFields, BaseAdditional))

Extra(n) == [k \in 1..n |-> 170 + k]

\* Complete OS/2 tables: the fixed block alone (an old table), or followed by a
\* trailing block (zero or non-zero) and up to MaxExtra further bytes.
OS2Complete ==
    {encodeStruct(TableOs2OriginalFields, o) : o \in OS2Originals}
    \cup {encodeStruct(TableOs2OriginalFields, BaseOriginal)
            \o encodeStruct(TableOs2AdditionalFields, a) \o Extra(x) :
            a \in {BaseAdditional, ZeroValue(TableOs2AdditionalFields)},
            x \in 0..MaxExtra}

\* Cuts of a complete table: no byte, inside the fixed block, one byte short of
\* it, and inside the trailing block.
OS2Cuts ==
    LET full == encodeStruct(TableOs2OriginalFields, BaseOriginal)
                   \o encodeStruct(TableOs2AdditionalFields, BaseAdditional)
    IN  {SubSeq(full, 1, n) :
            n \in {0, 1, 2, OS2FixedLen - 2, OS2FixedLen - 1, OS2FixedLen + 1,
                   OS2FullLen - 1}}

OS2Inputs == OS2Complete \cup OS2Cuts

\* The number of bits of the UlUnicodeRange bitmap.
BitmapBits == 128

\* The sum of 2^(b - base) over the bits b of S in base .. base+15.
RECURSIVE halfOf(_, _)
halfOf(S, base) ==
    LET in == {b \in S : b >= base /\ b < base + 16}
    IN  IF in = {} THEN 0
        ELSE LET b == CHOOSE x \in in : TRUE
             IN  Pow2(b - base) + halfOf(S \ {b}, base)

\* The four words of the bitmap whose set bits are S (bit 0 the least
\* significant bit of word 0).
bitmapOf(S) == [w \in 1..4 |-> Word32(halfOf(S, 32 * (w - 1) + 16), halfOf(S, 32 * (w - 1)))]

\* The sets of bits decoded: none, all, each bit alone, all but one bit at the
\* word edges, and the pairs and mixes whose entries are declared out of bit
\* order or share a word.
RangeBitSets ==
    {{}, 0..(BitmapBits - 1)}
    \cup {{b} : b \in 0..(BitmapBits - 1)}
    \cup {(0..(BitmapBits - 1)) \ {b} : b \in {0, 31, 32, 63, 122, 127}}
    \cup {{12, 13}, {65, 66}, {82, 83}, {9, 31, 32, 122}, {0, 1, 2, 38, 39}}

OS2RangeInputs ==
    {encodeStruct(TableOs2OriginalFields, [BaseOriginal EXCEPT !.UlUnicodeRange = bitmapOf(S)]) :
        S \in RangeBitSets}

\* parseTableOS2 is a function of its buffer alone: its results, tabulated.
OS2Results == [b \in OS2Inputs \cup OS2RangeInputs |-> parseTableOS2(b)]

\* The value of `info` before Info has been called.
NoInfo == [pc |-> "idle"]

\* No goroutine has been started.
NoGoroutines == <<>>

-----------------------------------------------------------------------------
(* fvar table: src/sfnt/table_fvar.go                                      *)

FvarHeaderFields == <<
    <<"MajorVersion",   "uint", 2, 1>>,
    <<"MinorVersion",   "uint", 2, 1>>,
    <<"OffsetToData",   "uint", 2, 1>>,
    <<"CountSizePairs", "uint", 2, 1>>,
    <<"AxisCount",      "uint", 2, 1>>,
    <<"AxisSize",       "uint", 2, 1>>,
    <<"InstanceCount",  "uint", 2, 1>>,
    <<"InstanceSize",   "uint", 2, 1>> >>

VariationAxisFields == <<
    <<"AxisTag",      "uint", 4, 1>>,
    <<"MinValue",     "int",  SizeofFixed, 1>>,
    <<"DefaultValue", "int",  SizeofFixed, 1>>,
    <<"MaxValue",     "int",  SizeofFixed, 1>>,
    <<"Flags",        "uint", 2, 1>>,
    <<"NameID",       "uint", SizeofNameID, 1>> >>

InstanceFields == <<
    <<"NameID",   "uint",  SizeofNameID, 1>>,
    <<"Flags",    "uint",  2, 1>>,
    <<"Coord",    "slice", 0, 1>>,
    <<"PsNameID", "ptr",   0, 1>> >>

InstanceWithoutPSNameFields == <<
    <<"NameID",   "uint",  SizeofNameID, 1>>,
    <<"Flags",    "uint",  2, 1>>,
    <<"Coord",    "slice", 0, 1>> >>

\* The axis loop from its i-th pass on: n passes left, r at off, acc appended so far.
RECURSIVE readAxes(_, _, _, _)
readAxes(data, off, n, acc) ==
    IF n = 0 THEN [err |-> "nil", off |-> off, axes |-> acc]
    ELSE LET rd == binaryRead(VariationAxisFields, data, off)
         IN  IF rd.err # "nil" THEN [err |-> rd.err, off |-> rd.off, axes |-> acc]
             ELSE readAxes(data, rd.off, n - 1, Append(acc, rd.value))

\* 2 * uint16(unsafe.Sizeof(types.Uint16)): types.Uint16 is a go/types
\* BasicKind constant, an int, so its size is the platform's int size.
noPsNameIdVariant(isz) == (2 * isz) % 65536

\* uint16(unsafe.Sizeof(types.Int16)) + uint16(unsafe.Sizeof(types.Uint16))
invariant(isz) == (isz + isz) % 65536

\* The branch one pass of the instance loop takes.
instanceBranch(header, isz) ==
    IF header.InstanceSize = (noPsNameIdVariant(isz) + invariant(isz)) % 65536
    THEN "InstanceWithoutPSName" ELSE "Instance"

\* The instance loop from its i-th pass on.
RECURSIVE readInstances(_, _, _, _, _, _)
readInstances(data, off, header, n, acc, isz) ==
    IF n = 0 THEN [err |-> "nil", off |-> off, instances |-> acc]
    ELSE IF instanceBranch(header, isz) = "InstanceWithoutPSName" THEN
        LET rd == binaryRead(InstanceWithoutPSNameFields, data, off)
        IN  IF rd.err # "nil" THEN [err |-> rd.err, off |-> rd.off, instances |-> acc]
            ELSE readInstances(data, rd.off, header, n - 1,
                     Append(acc, [NameID |-> rd.value.NameID, Flags |-> rd.value.Flags,
                                  Coord |-> rd.value.Coord, PsNameID |-> NilPtr]), isz)
    ELSE
        LET rd == binaryRead(InstanceFields, data, off)
        IN  IF rd.err # "nil" THEN [err |-> rd.err, off |-> rd.off, instances |-> acc]
            ELSE readInstances(data, rd.off, header, n - 1,
                     Append(acc, [NameID |-> rd.value.NameID, Flags |-> rd.value.Flags,
                                  Coord |-> rd.value.Coord,
                                  PsNameID |-> rd.value.PsNameID]), isz)

\* parseTableFvar's result on a build whose int is isz bytes wide: the table (or
\* Nil), the error, r's position and the instance branch the loop entered.
\* parseTableFvar returning the table built so far together with the axis
\* loop's error.
parseTableFvar_KeepPartial(data, isz) ==
    LET hd == binaryRead(FvarHeaderFields, data, 0)
    IN  IF hd.err # "nil" THEN
            [table |-> Nil, err |-> hd.err, off |-> hd.off, branch |-> "none"]
        ELSE
            LET header == hd.value
                ax == readAxes(data, hd.off, header.AxisCount, <<>>)
            IN  [table |-> [Header |-> header, Axis |-> ax.axes,
                            Instance |-> <<>>, bytes |-> data],
                 err |-> ax.err, off |-> ax.off, branch |-> "none"]

\* parseTableFvar leaving the axis loop on a read error instead of returning.
parseTableFvar_BreakOnAxisError(data, isz) ==
    LET hd == binaryRead(FvarHeaderFields, data, 0)
    IN  IF hd.err # "nil" THEN
            [table |-> Nil, err |-> hd.err, off |-> hd.off, branch |-> "none"]
        ELSE
            LET header == hd.value
                ax == readAxes(data, hd.off, header.AxisCount, <<>>)
                ins == readInstances(data, ax.off, header, header.InstanceCount, <<>>, isz)
                br == IF header.InstanceCount > 0
                      THEN instanceBranch(header, isz) ELSE "none"
            IN  IF ins.err # "nil" THEN
                    [table |-> Nil, err |-> ins.err, off |-> ins.off, branch |-> br]
                ELSE
                    [table |-> [Header |-> header, Axis |-> ax.axes,
                                Instance |-> ins.instances, bytes |-> data],
                     err |-> "nil", off |-> ins.off, branch |-> br]

parseTableFvar(data, isz) ==
    LET hd == binaryRead(FvarHeaderFields, data, 0)
    IN  IF hd.err # "nil" THEN
            [table |-> Nil, err |-> hd.err, off |-> hd.off, branch |-> "none"]
        ELSE
            LET header == hd.value
                ax == readAxes(data, hd.off, header.AxisCount, <<>>)
            IN  IF ax.err # "nil" THEN
                    [table |-> Nil, err |-> ax.err, off |-> ax.off, branch |-> "none"]
                ELSE
                    LET ins == readInstances(data, ax.off, header,
                                             header.InstanceCount, <<>>, isz)
                        br == IF header.InstanceCount > 0
                              THEN instanceBranch(header, isz) ELSE "none"
                    IN  IF ins.err # "nil" THEN
                            [table |-> Nil, err |-> ins.err, off |-> ins.off, branch |-> br]
                        ELSE
                            [table |-> [Header |-> header, Axis |-> ax.axes,
                                        Instance |-> ins.instances, bytes |-> data],
                             err |-> "nil", off |-> ins.off, branch |-> br]

-----------------------------------------------------------------------------
(* fvar input buffers: the wire image of an fvar table whose records have  *)
(* the sizes its header declares, cut or extended to a chosen length.      *)

\* bs cut or padded (with 0xEE) to exactly n bytes.
fitTo(bs, n) == [k \in 1..n |-> IF k <= Len(bs) THEN bs[k] ELSE 238]

WireHeader(ac, asz, ic, isz) ==
    encodeStruct(FvarHeaderFields,
        [MajorVersion |-> 1, MinorVersion |-> 0, OffsetToData |-> 16,
         CountSizePairs |-> 2, AxisCount |-> ac, AxisSize |-> asz,
         InstanceCount |-> ic, InstanceSize |-> isz])

\* Axis record k ("wght", 100..900, default 400), asz bytes long.
WireAxis(k, asz) ==
    fitTo(encodeStruct(VariationAxisFields,
            [AxisTag |-> Word32(30567, 26740), MinValue |-> Word32(100, 0),
             DefaultValue |-> Word32(400, 0), MaxValue |-> Word32(900, 32768),
             Flags |-> 0, NameID |-> 256 + k]), asz)

RECURSIVE WireAxes(_, _, _)
WireAxes(k, ac, asz) ==
    IF k > ac THEN <<>> ELSE WireAxis(k, asz) \o WireAxes(k + 1, ac, asz)

\* The coordinate of instance j on axis k, a 16.16 fixed-point value.
WireCoord(j, k) == Word32(100 * j + k, 16384)

RECURSIVE WireCoords(_, _, _)
WireCoords(j, k, ac) ==
    IF k > ac THEN <<>> ELSE BEBytes(WireCoord(j, k), 4) \o WireCoords(j, k + 1, ac)

\* Instance record j: name reference, flags, ac coordinates and, where isz has
\* room for it, the PostScript name reference; isz bytes long.
WireInstance(j, ac, isz) ==
    fitTo(BEBytes(300 + j, 2) \o BEBytes(0, 2) \o WireCoords(j, 1, ac)
            \o BEBytes(400 + j, 2), isz)

RECURSIVE WireInstances(_, _, _, _)
WireInstances(j, ic, ac, isz) ==
    IF j > ic THEN <<>>
    ELSE WireInstance(j, ac, isz) \o WireInstances(j + 1, ic, ac, isz)

WireFvar(ac, asz, ic, isz) ==
    WireHeader(ac, asz, ic, isz) \o WireAxes(1, ac, asz) \o WireInstances(1, ic, ac, isz)

\* The minimum axis record, and one extended by a later minor version.
AxisSizes == {20, 24}

\* Declared instance sizes: the two shapes of the format, one byte off them,
\* and the two values the decoder's own comparison can equal.
InstanceSizes(ac) == {4 + 4 * ac, 6 + 4 * ac, 5 + 4 * ac, 16, 32}

FvarComplete ==
    UNION {{WireFvar(ac, asz, ic, isz) \o Extra(x) :
                asz \in AxisSizes, ic \in 0..MaxInstanceCount,
                isz \in InstanceSizes(ac), x \in 0..MaxExtra} :
           ac \in 0..MaxAxisCount}

\* Cuts of complete tables: no byte, inside the header, inside the first record
\* after the header, and one byte short of the end.
FvarCuts ==
    {SubSeq(b, 1, n) : b \in {c \in FvarComplete : Len(c) > 26}, n \in {0, 15, 26}}
    \cup {SubSeq(b, 1, Len(b) - 1) : b \in FvarComplete}

FvarInputs == FvarComplete \cup FvarCuts

\* The buffers of a run that decodes tables of both kinds and reads them
\* back: OS/2 buffers cut short, exact and with bytes after the last field
\* read; fvar buffers without instances, exact, with trailing bytes and cut by
\* one byte, and one with an instance record.
OS2BytesInputs ==
    OS2Cuts \cup {b \in OS2Complete : Len(b) >= OS2FullLen \/ b = encodeStruct(TableOs2OriginalFields, BaseOriginal)}

FvarBytesInputs ==
    LET whole == UNION {{WireFvar(ac, 20, 0, 4 + 4 * ac) \o Extra(x) : x \in 0..MaxExtra} :
                           ac \in 0..MaxAxisCount}
    IN  whole \cup {SubSeq(b, 1, Len(b) - 1) : b \in whole}
              \cup {WireFvar(1, 20, 1, 8)}

\* parseTableFvar is a function of its buffer and the build: its results, tabulated.
FvarResults == [b \in FvarInputs |-> [isz \in {4, 8} |-> parseTableFvar(b, isz)]]

-----------------------------------------------------------------------------
(* The info command: src/cmd/font/info.go.  A font is its table directory:  *)
(* for each tag the set holding the table's bytes, or the empty set when    *)
(* the font has no such table.  The name table's decoder is not part of the *)
(* package modelled here; a font carries what that decoder returns.         *)

TagName == "name"
TagFvar == "fvar"
TagOS2 == "OS/2"

\* font.HasTable(tag)
HasTable(font, tag) == font[tag] # {}

\* font.NameTable(): the entry list and the error of the name decoder.
NameTable(font) == CHOOSE r \in font[TagName] : TRUE

\* font.FvarTable(): the fvar decoder applied to the table's bytes.
FvarTable(font, isz) == FvarResults[CHOOSE b \in font[TagFvar] : TRUE][isz]

\* font.OS2Table(): the OS/2 decoder applied to the table's bytes.
OS2Table(font) == OS2Results[CHOOSE b \in font[TagOS2] : TRUE]

\* a.DefaultValue.Major: the signed integer half of a 16.16 value.
Major(fixed) == ToSigned(fixed[1], 2)

\* strcase.ToSnake for the labels of the name entries used.
ToSnake(label) ==
    CASE label = "Font Family" -> "font_family"
      [] label = "Full Name" -> "full_name"
      [] OTHER -> label

\* A map without keys, and m[k] = v.
EmptyMap == [k \in {} |-> ""]

Put(m, k, v) == (k :> v) @@ m

\* data[id] of a Go map: the zero value "" for a missing key.
Lookup(m, k) == IF k \in DOMAIN m THEN m[k] ELSE ""

\* Info's locals at entry; ret is "running" until Info returns.
InfoStart(font) ==
    [font |-> font, data |-> EmptyMap, output |-> EmptyMap, ret |-> "running",
     decoded |-> <<>>, printed |-> <<>>]

\* for _, entry := range name.List(), from entry i on.
RECURSIVE nameEntries(_, _, _)
nameEntries(st, entries, i) ==
    IF i > Len(entries) THEN st
    ELSE LET entry == entries[i]
         IN  nameEntries(
                 IF entry.NameID > 255
                 THEN [st EXCEPT !.data = Put(@, entry.NameID, entry.String)]
                 ELSE [st EXCEPT !.output = Put(@, ToSnake(entry.Label), entry.String)],
                 entries, i + 1)

\* The name block of Info.
infoName(st) ==
    IF st.ret # "running" \/ ~HasTable(st.font, TagName) THEN st
    ELSE LET name == NameTable(st.font)
             st1 == [st EXCEPT !.decoded = Append(@, TagName)]
         IN  IF name.err # "nil" THEN [st1 EXCEPT !.ret = name.err]
             ELSE nameEntries(st1, name.entries, 1)

\* for i := 0; i < int(fvar.Header.AxisCount); i++, from index i on.
RECURSIVE axisLoop(_, _, _)
axisLoop(st, table, i) ==
    IF i >= table.Header.AxisCount THEN st
    ELSE IF i + 1 \notin DOMAIN table.Axis THEN
        [st EXCEPT !.ret = "panic: index out of range"]
    ELSE LET a == table.Axis[i + 1]
             m == Major(a.DefaultValue)
         IN  axisLoop(
                 IF Lookup(st.data, a.NameID) = "wght"
                 THEN [st EXCEPT !.output =
                          Put(@, "font_weight", IF m < 0 THEN "-" \o Itoa(-m) ELSE Itoa(m))]
                 ELSE st,
                 table, i + 1)

\* The fvar block of Info.
infoFvar(st, isz) ==
    IF st.ret # "running" \/ ~HasTable(st.font, TagFvar) THEN st
    ELSE LET res == FvarTable(st.font, isz)
             st1 == [st EXCEPT !.decoded = Append(@, TagFvar)]
         IN  IF res.err # "nil" THEN [st1 EXCEPT !.ret = res.err]
             ELSE axisLoop(st1, res.table, 0)

\* The OS/2 block of Info.
infoOS2(st, catalog) ==
    IF st.ret # "running" \/ ~HasTable(st.font, TagOS2) THEN st
    ELSE LET res == OS2Table(st.font)
             st1 == [st EXCEPT !.decoded = Append(@, TagOS2)]
         IN  IF res.err # "nil" THEN [st1 EXCEPT !.ret = res.err]
             ELSE [st1 EXCEPT !.output =
                      Put(Put(Put(Put(@, "font_weight", WeightClass(res.table)),
                                  "font_width", WidthClass(res.table)),
                              "font_style", FontStyle(res.table)),
                          "unicode_range", UnicodeRanges(res.table, catalog))]

\* json.MarshalIndent of the output map (strings and string slices always
\* marshal), fmt.Println of it, return nil.  The printed object is held as the
\* map it renders.
infoPrint(st) ==
    IF st.ret # "running" THEN st
    ELSE [st EXCEPT !.printed = <<st.output>>, !.ret = "nil"]

\* Info with the OS/2 block ahead of the fvar block.
Info_OS2BeforeFvar(font, isz, catalog) ==
    infoPrint(infoFvar(infoOS2(infoName(InfoStart(font)), catalog), isz))

\* Info(font): its locals when it returns.
Info(font, isz, catalog) ==
    infoPrint(infoOS2(infoFvar(infoName(InfoStart(font)), isz), catalog))

\* What the name decoder returns: an error, entries that name axis 257 "wght",
\* entries that name it "Weight".
NameResults ==
    {[err |-> "name: invalid table", entries |-> <<>>]}
    \cup {[err |-> "nil",
           entries |-> <<[NameID |-> 1, Label |-> "Font Family", String |-> "Demo"],
                         [NameID |-> 257, Label |-> "257", String |-> axisName],
                         [NameID |-> 4, Label |-> "Full Name", String |-> "Demo Bold"]>>] :
            axisName \in {"wght", "Weight"}}

\* fvar tables of a font: without axes, with one and two axes, cut one byte
\* short, and with an instance record.
FontFvarBuffers ==
    LET one == WireFvar(1, 20, 0, 8)
    IN  {WireFvar(0, 20, 0, 4), one, WireFvar(MaxAxisCount, 20, 0, 4 + 4 * MaxAxisCount),
         SubSeq(one, 1, Len(one) - 1), WireFvar(1, 20, 1, 8)}

\* OS/2 tables of a font: weights 400, 700 and 7, and one cut a byte short.
FontOS2Buffers ==
    {encodeStruct(TableOs2OriginalFields, [BaseOriginal EXCEPT !.USWeightClass = w]) :
        w \in {400, 700, 7}}
    \cup {SubSeq(encodeStruct(TableOs2OriginalFields, BaseOriginal), 1, OS2FixedLen - 1)}

Fonts ==
    {(TagName :> n) @@ (TagFvar :> f) @@ (TagOS2 :> o) :
        n \in {{}} \cup {{r} : r \in NameResults},
        f \in {{}} \cup {{b} : b \in FontFvarBuffers},
        o \in {{}} \cup {{b} : b \in FontOS2Buffers}}

-----------------------------------------------------------------------------
(* Concurrent callers.  Each goroutine makes one call; a decode is local to *)
(* its goroutine, a UnicodeRanges call reads one element of the shared      *)
(* slice SupportedUnicodeRanges per step.                                   *)

\* The goroutines of a concurrent run.
Goroutines == {1, 2}

\* The tables UnicodeRanges is called on: all bits set, and bits 12 and 13.
ConcTables ==
    {OS2Results[encodeStruct(TableOs2OriginalFields,
                             [BaseOriginal EXCEPT !.UlUnicodeRange = bitmapOf(S)])].table :
        S \in {0..(BitmapBits - 1), {12, 13}}}

\* The buffers the concurrent decoders are given: one that decodes and one
\* that does not, for each decoder.
ConcOS2Inputs ==
    {encodeStruct(TableOs2OriginalFields, BaseOriginal),
     SubSeq(encodeStruct(TableOs2OriginalFields, BaseOriginal), 1, OS2FixedLen - 1)}

ConcFvarInputs == {WireFvar(1, 20, 0, 8), WireFvar(1, 20, 1, 8)}

\* The calls a goroutine can make.
Calls ==
    {[call |-> "UnicodeRanges", arg |-> t] : t \in ConcTables}
    \cup {[call |-> "parseTableOS2", arg |-> b] : b \in ConcOS2Inputs}
    \cup {[call |-> "parseTableFvar", arg |-> b] : b \in ConcFvarInputs}

\* One pass of UnicodeRanges' loop that also stores the prefixed strings back
\* into the shared entry.
unicodeRangesPass_PrefixInPlace(catalog, t, i, ranges) ==
    IF isSupported(catalog[i], t.TableOs2Original.UlUnicodeRange)
    THEN [catalog |-> [catalog EXCEPT ![i].UnicodeRanges = prefixed(@)],
          ranges |-> ranges \o prefixed(catalog[i].UnicodeRanges)]
    ELSE [catalog |-> catalog, ranges |-> ranges]

\* One pass of UnicodeRanges' loop over the shared slice: the slice after the
\* pass and the goroutine's ranges after it.
unicodeRangesPass(catalog, t, i, ranges) ==
    IF isSupported(catalog[i], t.TableOs2Original.UlUnicodeRange)
    THEN [catalog |-> catalog, ranges |-> ranges \o prefixed(catalog[i].UnicodeRanges)]
    ELSE [catalog |-> catalog, ranges |-> ranges]

-----------------------------------------------------------------------------
(* State machine.                                                          *)

Init ==
    /\ buf = <<>>
    /\ os2 = Nil
    /\ fvar = Nil
    /\ err = "nil"
    /\ consumed = 0
    /\ branch = "none"
    /\ op = "none"
    /\ out = NoValue
    /\ intSize \in {4, 8}
    /\ SupportedUnicodeRanges \in InitialCatalogs
    /\ supports = <<>>
    /\ info = NoInfo
    /\ gor = NoGoroutines

\* table, err := parseTableOS2(tag, b), b one of `inputs`.
ParseTableOS2From(inputs) ==
    \E b \in inputs :
        LET res == OS2Results[b]
        IN  /\ buf' = b
            /\ os2' = res.table
            /\ err' = res.err
            /\ consumed' = res.off
            /\ op' = "parseTableOS2"
            /\ out' = NoValue
            /\ supports' = <<>>
            /\ UNCHANGED <<fvar, branch, elsewhere>>

ParseTableOS2 == ParseTableOS2From(OS2Inputs)

ParseTableOS2Ranges == ParseTableOS2From(OS2RangeInputs)

CallWeightClass ==
    /\ os2 # Nil
    /\ out' = WeightClass(os2)
    /\ op' = "WeightClass"
    /\ UNCHANGED <<buf, os2, fvar, err, consumed, branch, supports, elsewhere>>

CallWidthClass ==
    /\ os2 # Nil
    /\ out' = WidthClass(os2)
    /\ op' = "WidthClass"
    /\ UNCHANGED <<buf, os2, fvar, err, consumed, branch, supports, elsewhere>>

CallFontStyle ==
    /\ os2 # Nil
    /\ out' = FontStyle(os2)
    /\ op' = "FontStyle"
    /\ UNCHANGED <<buf, os2, fvar, err, consumed, branch, supports, elsewhere>>

\* ranges := os2.UnicodeRanges()
CallUnicodeRanges ==
    /\ os2 # Nil
    /\ out' = UnicodeRanges(os2, SupportedUnicodeRanges)
    /\ supports' = supportedPasses(os2, SupportedUnicodeRanges)
    /\ op' = "UnicodeRanges"
    /\ UNCHANGED <<buf, os2, fvar, err, consumed, branch, elsewhere>>

\* b := os2.Bytes()
CallBytesOS2 ==
    /\ os2 # Nil
    /\ out' = Bytes(os2)
    /\ op' = "TableOS2.Bytes"
    /\ UNCHANGED <<buf, os2, fvar, err, consumed, branch, supports, elsewhere>>

\* b := fvar.Bytes()
CallBytesFvar ==
    /\ fvar # Nil
    /\ out' = Bytes(fvar)
    /\ op' = "TableFvar.Bytes"
    /\ UNCHANGED <<buf, os2, fvar, err, consumed, branch, supports, elsewhere>>

\* table, err := parseTableFvar(tag, b), b one of `inputs`.
ParseTableFvarFrom(inputs) ==
    \E b \in inputs :
        LET res == FvarResults[b][intSize]
        IN  /\ buf' = b
            /\ fvar' = res.table
            /\ err' = res.err
            /\ consumed' = res.off
            /\ branch' = res.branch
            /\ op' = "parseTableFvar"
            /\ out' = NoValue
            /\ UNCHANGED <<os2, supports, elsewhere>>

ParseTableFvar == ParseTableFvarFrom(FvarInputs)

ParseTableOS2Bytes == ParseTableOS2From(OS2BytesInputs)

ParseTableFvarBytes == ParseTableFvarFrom(FvarBytesInputs)

NextOS2 ==
    \/ ParseTableOS2
    \/ CallWeightClass
    \/ CallWidthClass
    \/ CallFontStyle

SpecOS2 == Init /\ [][NextOS2]_vars

NextFvar == ParseTableFvar

\* err := Info(font)
CallInfo ==
    \E font \in Fonts :
        /\ info' = Info(font, intSize, SupportedUnicodeRanges)
        /\ op' = "Info"
        /\ out' = NoValue
        /\ UNCHANGED <<buf, os2, fvar, err, consumed, branch, supports,
                       intSize, SupportedUnicodeRanges, gor>>

\* go f(): the next goroutine starts its call.
Go ==
    /\ Len(gor) < Cardinality(Goroutines)
    /\ \E c \in Calls :
           gor' = Append(gor, [call |-> c.call, arg |-> c.arg, pc |-> "running",
                               i |-> 1, ranges |-> <<>>, result |-> NoValue])
    /\ UNCHANGED <<buf, os2, fvar, err, consumed, branch, op, out, supports,
                   intSize, SupportedUnicodeRanges, info>>

\* Goroutine g runs the next pass of its UnicodeRanges loop, or returns.
StepUnicodeRanges(g) ==
    /\ gor[g].call = "UnicodeRanges"
    /\ gor[g].pc = "running"
    /\ IF gor[g].i > Len(SupportedUnicodeRanges) THEN
           /\ gor' = [gor EXCEPT ![g].pc = "done", ![g].result = gor[g].ranges]
           /\ UNCHANGED SupportedUnicodeRanges
       ELSE
           LET pass == unicodeRangesPass(SupportedUnicodeRanges, gor[g].arg,
                                         gor[g].i, gor[g].ranges)
           IN  /\ gor' = [gor EXCEPT ![g].i = @ + 1, ![g].ranges = pass.ranges]
               /\ SupportedUnicodeRanges' = pass.catalog
    /\ UNCHANGED <<buf, os2, fvar, err, consumed, branch, op, out, supports,
                   intSize, info>>

\* Goroutine g's parseTableOS2 call runs and returns.
StepParseTableOS2(g) ==
    /\ gor[g].call = "parseTableOS2"
    /\ gor[g].pc = "running"
    /\ gor' = [gor EXCEPT ![g].pc = "done",
                          ![g].result = [table |-> OS2Results[gor[g].arg].table,
                                         err |-> OS2Results[gor[g].arg].err]]
    /\ UNCHANGED <<buf, os2, fvar, err, consumed, branch, op, out, supports,
                   intSize, SupportedUnicodeRanges, info>>

\* Goroutine g's parseTableFvar call runs and returns.
StepParseTableFvar(g) ==
    /\ gor[g].call = "parseTableFvar"
    /\ gor[g].pc = "running"
    /\ gor' = [gor EXCEPT ![g].pc = "done",
                          ![g].result = [table |-> FvarResults[gor[g].arg][intSize].table,
                                         err |-> FvarResults[gor[g].arg][intSize].err]]
    /\ UNCHANGED <<buf, os2, fvar, err, consumed, branch, op, out, supports,
                   intSize, SupportedUnicodeRanges, info>>

NextConcurrent ==
    \/ Go
    \/ \E g \in DOMAIN gor : StepUnicodeRanges(g)
    \/ \E g \in DOMAIN gor : StepParseTableOS2(g)
    \/ \E g \in DOMAIN gor : StepParseTableFvar(g)

SpecConcurrent == Init /\ [][NextConcurrent]_vars

NextInfo == CallInfo

SpecInfo == Init /\ [][NextInfo]_vars

NextBytes ==
    \/ ParseTableOS2Bytes
    \/ ParseTableFvarBytes
    \/ CallBytesOS2
    \/ CallBytesFvar
    \/ CallWeightClass
    \/ CallWidthClass
    \/ CallFontStyle
    \/ CallUnicodeRanges

SpecBytes == Init /\ [][NextBytes]_vars

NextUnicode ==
    \/ ParseTableOS2Ranges
    \/ CallUnicodeRanges

SpecUnicode == Init /\ [][NextUnicode]_vars

SpecFvar == Init /\ [][NextFvar]_vars

-----------------------------------------------------------------------------
(* Properties.                                                             *)

\* Bit k of the unsigned value v.
Bit(v, k) == (v \div Pow2(k)) % 2 = 1

\* The style label the priority order italic > bold > underscore > outlined >
\* strikeout > negative gives a selection value.
PriorityLabel(sel) ==
    IF Bit(sel, 0) THEN "italic"
    ELSE IF Bit(sel, 5) THEN "bold"
    ELSE IF Bit(sel, 1) THEN "underscore"
    ELSE IF Bit(sel, 3) THEN "outlined"
    ELSE IF Bit(sel, 4) THEN "strikeout"
    ELSE IF Bit(sel, 2) THEN "negative"
    ELSE "normal"

\* C1: for every FsSelection value FontStyle() returns the one label the
\* priority italic (bit 0) > bold (bit 5) > underscore (bit 1) > outlined
\* (bit 3) > strikeout (bit 4) > negative (bit 2) selects, "normal" exactly
\* when none of bits 0-5 is set, and bits 6-15 never change the result.
C1_FontStylePriority ==
    op = "FontStyle" =>
        LET sel == os2.TableOs2Original.FsSelection
        IN  /\ out = PriorityLabel(sel)
            /\ (out = "normal") <=> (\A k \in 0..5 : ~Bit(sel, k))
            /\ out = PriorityLabel(sel % 64)

\* C1 witness: bold, underscore, negative and bit 15 set, italic clear: "bold".
C1_Witness ==
    /\ op = "FontStyle"
    /\ os2.TableOs2Original.FsSelection = 32768 + 32 + 4 + 2
    /\ out = "bold"

\* io.EOF and io.ErrUnexpectedEOF: the reader ran out of bytes.
TruncationErrors == {"EOF", "unexpected EOF"}

\* C2: decoding an OS/2 table fails with a truncation error and no table if
\* and only if the buffer is shorter than 68 bytes; every buffer of 68 bytes
\* or more decodes successfully.
C2_TruncatedIffShort ==
    op = "parseTableOS2" =>
        /\ (Len(buf) < 68) <=> (err \in TruncationErrors /\ os2 = Nil)
        /\ (Len(buf) >= 68) <=> (err = "nil" /\ os2 # Nil)
        /\ os2 # Nil => os2.bytes = buf

\* C2 witness: a buffer one byte short of the fixed block is refused.
C2_Witness ==
    /\ op = "parseTableOS2"
    /\ Len(buf) = 67
    /\ err = "unexpected EOF"
    /\ os2 = Nil

Zeros(n) == [k \in 1..n |-> 0]

\* C3: in a table decoded from a buffer without the trailing block the
\* optional fields are reported absent, which differs from what is reported
\* for the same fixed block followed by a trailing block of zero values.
C3_AbsentFieldsDistinguishable ==
    (op = "parseTableOS2" /\ err = "nil" /\ Len(buf) = sizeofStruct(TableOs2OriginalFields)) =>
        os2.TableOs2AdditionalFields #
            parseTableOS2(buf \o Zeros(sizeofStruct(TableOs2AdditionalFields)))
                .table.TableOs2AdditionalFields

\* C4: when the buffer holds the trailing block after the fixed block, the
\* table's additional fields are the big-endian values of those bytes in
\* declared order.
C4_AdditionalFieldsDecoded ==
    (/\ op = "parseTableOS2"
     /\ err = "nil"
     /\ Len(buf) >= sizeofStruct(TableOs2OriginalFields)
                       + sizeofStruct(TableOs2AdditionalFields)) =>
        os2.TableOs2AdditionalFields =
            decodeStruct(TableOs2AdditionalFields, buf, sizeofStruct(TableOs2OriginalFields))

\* The header the buffer of the last parseTableFvar call declares.
Declared == decodeStruct(FvarHeaderFields, buf, 0)

\* The buffer holds the header and every record the header declares, axis
\* records being at least the 20 bytes of a VariationAxis.
FvarWellFormed ==
    /\ Len(buf) >= 16
    /\ Declared.AxisSize >= 20
    /\ Len(buf) >= 16 + Declared.AxisCount * Declared.AxisSize
                       + Declared.InstanceCount * Declared.InstanceSize

\* Instance record sizes of the format: name reference 2 + flags 2 +
\* AxisCount coordinates of 4 bytes, and 2 more with the PostScript name.
SizeWithoutPsName == 2 + 2 + Declared.AxisCount * 4

SizeWithPsName == SizeWithoutPsName + 2

\* C5: a table whose header's InstanceSize is the size without the optional
\* identifier decodes to instances that all have PsNameID absent; one whose
\* InstanceSize is 2 more decodes to instances that all have it present.
C5_ShapeResolution ==
    (op = "parseTableFvar" /\ FvarWellFormed /\ Declared.InstanceCount > 0) =>
        /\ Declared.InstanceSize = SizeWithoutPsName =>
                /\ fvar # Nil
                /\ Len(fvar.Instance) = Declared.InstanceCount
                /\ \A j \in 1..Len(fvar.Instance) : fvar.Instance[j].PsNameID = NilPtr
        /\ Declared.InstanceSize = SizeWithPsName =>
                /\ fvar # Nil
                /\ Len(fvar.Instance) = Declared.InstanceCount
                /\ \A j \in 1..Len(fvar.Instance) : fvar.Instance[j].PsNameID # NilPtr

\* C6: parseTableFvar fails with a Malformed error and no table whenever
\* InstanceCount > 0 and InstanceSize is neither of the two expected sizes.
C6_MalformedOnSizeMismatch ==
    (/\ op = "parseTableFvar"
     /\ FvarWellFormed
     /\ Declared.InstanceCount > 0
     /\ Declared.InstanceSize \notin {SizeWithoutPsName, SizeWithPsName}) =>
        /\ fvar = Nil
        /\ err = "Malformed"

\* C7: a successful parseTableFvar consumes exactly 16 + AxisCount*AxisSize +
\* InstanceCount*InstanceSize bytes, axis record i being read at offset
\* 16 + i*AxisSize.
C7_ConsumedDeclaredSizes ==
    (op = "parseTableFvar" /\ err = "nil") =>
        /\ consumed = 16 + Declared.AxisCount * Declared.AxisSize
                          + Declared.InstanceCount * Declared.InstanceSize
        /\ \A i \in 1..Len(fvar.Axis) :
                fvar.Axis[i] =
                    decodeStruct(VariationAxisFields, buf, 16 + (i - 1) * Declared.AxisSize)

\* The k-th 32-bit value of instance record j of the buffer.
WireCoordAt(j, k) ==
    LET at == 16 + Declared.AxisCount * Declared.AxisSize
                 + (j - 1) * Declared.InstanceSize + 4 + (k - 1) * 4
    IN  Word32(BEValue(SubSeq(buf, at + 1, at + 2)), BEValue(SubSeq(buf, at + 3, at + 4)))

\* C8: the table decoded from a buffer with instance records holds them, each
\* with exactly AxisCount coordinates, coordinate k being the k-th 32-bit
\* value of the record.
C8_CoordPerAxis ==
    (/\ op = "parseTableFvar"
     /\ FvarWellFormed
     /\ Declared.InstanceCount > 0
     /\ Declared.InstanceSize \in {SizeWithoutPsName, SizeWithPsName}) =>
        /\ fvar # Nil
        /\ Len(fvar.Instance) = Declared.InstanceCount
        /\ \A j \in 1..Len(fvar.Instance) :
                /\ Len(fvar.Instance[j].Coord) = Declared.AxisCount
                /\ \A k \in 1..Declared.AxisCount :
                        fvar.Instance[j].Coord[k] = WireCoordAt(j, k)

WeightBuckets == <<"Ultra-light", "Extra-light", "Light", "Semi-light", "Medium",
                   "Semi-bold", "Bold", "Extra-bold", "Ultra-bold">>

IsDigit(c) == \E d \in 1..10 : Digits[d] = c

\* The number a string of decimal digits denotes.
RECURSIVE ParseDecimal(_)
ParseDecimal(str) ==
    IF Len(str) = 0 THEN 0
    ELSE 10 * ParseDecimal(SubSeq(str, 1, Len(str) - 1))
         + ((CHOOSE d \in 1..10 : Digits[d] = SubSeq(str, Len(str), Len(str))) - 1)

\* str is the decimal string of n: digits only, no leading zero, value n.
IsDecimalOf(str, n) ==
    /\ Len(str) >= 1
    /\ \A i \in 1..Len(str) : IsDigit(SubSeq(str, i, i))
    /\ Len(str) > 1 => Head(str) # "0"
    /\ ParseDecimal(str) = n

\* C10: WeightClass() returns the named bucket for USWeightClass 1..9 and the
\* decimal string of the value for every other value (0, 400, 1000, 65535).
C10_WeightClassMapping ==
    op = "WeightClass" =>
        LET w == os2.TableOs2Original.USWeightClass
        IN  /\ w \in 1..9 => out = WeightBuckets[w]
            /\ w \notin 1..9 => IsDecimalOf(out, w)
            /\ w = 0 => out = "0"
            /\ w = 400 => out = "400"
            /\ w = 1000 => out = "1000"
            /\ w = 65535 => out = "65535"

\* C10 witness: weight 400 is reported as "400".
C10_Witness ==
    /\ op = "WeightClass"
    /\ os2.TableOs2Original.USWeightClass = 400
    /\ out = "400"


WidthBuckets == <<"Ultra-condensed", "Extra-condensed", "Condensed", "Semi-condensed",
                  "Medium", "Semi-expanded", "Expanded", "Extra-expanded",
                  "Ultra-expanded">>

\* C11: WidthClass() returns the named bucket for USWidthClass 1..9 and the
\* literal string "Unknown" for every other 16-bit value.
C11_WidthClassMapping ==
    op = "WidthClass" =>
        LET w == os2.TableOs2Original.USWidthClass
        IN  /\ w \in 1..9 => out = WidthBuckets[w]
            /\ w \notin 1..9 => out = "Unknown"
            /\ w = BEValue(SubSeq(buf, 7, 8))

\* C11 witness: width class 10, one past the last bucket, is "Unknown".
C11_Witness ==
    /\ op = "WidthClass"
    /\ os2.TableOs2Original.USWidthClass = 10
    /\ out = "Unknown"


\* The bits set in the UlUnicodeRange bitmap of the buffer last decoded, read
\* off the wire: four big-endian 32-bit words from byte offset 42, bit 0 the
\* least significant bit of the first word.
WireBits ==
    {b \in 0..(BitmapBits - 1) :
        Bit(buf[42 + 4 * (b \div 32) + (3 - ((b % 32) \div 8)) + 1], b % 8)}

\* The sub-ranges of catalog entry e as UnicodeRanges is to report them.
Reported(e) == [k \in 1..Len(e.UnicodeRanges) |-> "U+" \o e.UnicodeRanges[k]]

\* C12: when the bitmap decoded has exactly one bit set and that bit is the
\* bit index of a catalog entry, UnicodeRanges() returns exactly that entry's
\* sub-ranges, each prefixed "U+", in their declared order; bit 9 alone gives
\* U+0400-04FF, U+0500-052F, U+2DE0-2DFF, U+A640-A69F.
C12_SingleBitRoundTrip ==
    op = "UnicodeRanges" =>
        /\ \A i \in 1..Len(SupportedUnicodeRanges) :
              WireBits = {SupportedUnicodeRanges[i].BitIndex}
                  => out = Reported(SupportedUnicodeRanges[i])
        /\ WireBits = {9}
              => out = <<"U+0400-04FF", "U+0500-052F", "U+2DE0-2DFF", "U+A640-A69F">>

C12_Witness ==
    /\ op = "UnicodeRanges"
    /\ WireBits = {9}
    /\ out = <<"U+0400-04FF", "U+0500-052F", "U+2DE0-2DFF", "U+A640-A69F">>


\* The number of sub-ranges declared together by the catalog entries before
\* index i whose bit index is in `bits`.
ReportedBefore(i, bits) ==
    Cardinality(UNION {{<<j, k>> : k \in 1..Len(SupportedUnicodeRanges[j].UnicodeRanges)} :
                          j \in {x \in 1..(i - 1) : SupportedUnicodeRanges[x].BitIndex \in bits}})

\* C13: UnicodeRanges() lists the sub-ranges of the supported entries in the
\* order the entries are declared in SupportedUnicodeRanges, not in the order
\* of their bit indexes: with bits 12 and 13 set Arabic (bit 13) comes before
\* Vai (bit 12); with bits 65 and 66 set, in the catalog that declares them,
\* Small Form Variants (bit 66) comes before Vertical Forms (bit 65).
C13_DeclarationOrder ==
    op = "UnicodeRanges" =>
        LET n == Len(SupportedUnicodeRanges)
            bits == WireBits
        IN  /\ Len(out) = ReportedBefore(n + 1, bits)
            /\ \A i \in 1..n :
                  SupportedUnicodeRanges[i].BitIndex \in bits =>
                      LET before == ReportedBefore(i, bits)
                      IN  \A k \in 1..Len(SupportedUnicodeRanges[i].UnicodeRanges) :
                              out[before + k]
                                  = "U+" \o SupportedUnicodeRanges[i].UnicodeRanges[k]
            /\ bits = {12, 13}
                  => out = <<"U+0600-06FF", "U+0750-077F", "U+A500-A63F">>
            /\ (bits = {65, 66} /\ \E i \in 1..n : SupportedUnicodeRanges[i].BitIndex = 65)
                  => out = <<"U+FE50-FE6F", "U+FE10-FE1F", "U+FE30-FE4F">>

C13_Witness ==
    /\ op = "UnicodeRanges"
    /\ WireBits = {65, 66}
    /\ out = <<"U+FE50-FE6F", "U+FE10-FE1F", "U+FE30-FE4F">>


\* The bits set in a uint32 held as its two halves.
BitsOfWord(w) == {k \in 0..15 : Bit(w[2], k)} \cup {k + 16 : k \in {x \in 0..15 : Bit(w[1], x)}}

\* C14: for every catalog entry and every bitmap decoded, isSupported returns
\* true exactly when bit (BitIndex mod 32) of word (BitIndex div 32) of the
\* bitmap is 1; the mask it builds for each shift 0..31, 2^31 included, is that
\* one bit.
C14_IsSupportedExact ==
    /\ \A e \in 0..31 : BitsOfWord(exp2Uint32(e)) = {e}
    /\ op = "UnicodeRanges" =>
          LET bits == WireBits
          IN  /\ Len(supports) = Len(SupportedUnicodeRanges)
              /\ \A i \in 1..Len(SupportedUnicodeRanges) :
                    supports[i] <=> SupportedUnicodeRanges[i].BitIndex \in bits

C14_Witness ==
    /\ op = "UnicodeRanges"
    /\ WireBits = {31}
    /\ \E i \in 1..Len(SupportedUnicodeRanges) :
          /\ SupportedUnicodeRanges[i].BitIndex = 31
          /\ supports[i]
          /\ \A j \in 1..Len(SupportedUnicodeRanges) : supports[j] => j = i


\* C19: every catalog entry has a bit index in 0..122 and no two entries share
\* one, so the word index BitIndex div 32 that isSupported computes is in 0..3
\* and one set bit never makes UnicodeRanges emit the sub-ranges of two entries.
C19_CatalogBitIndexes ==
    LET n == Len(SupportedUnicodeRanges)
    IN  /\ \A i \in 1..n :
              /\ SupportedUnicodeRanges[i].BitIndex \in 0..122
              /\ SupportedUnicodeRanges[i].BitIndex \div 32 \in 0..3
        /\ \A i, j \in 1..n :
              SupportedUnicodeRanges[i].BitIndex = SupportedUnicodeRanges[j].BitIndex => i = j
        /\ \A v, w \in DOMAIN UnicodeSupportVars :
              UnicodeSupportVar(v).BitIndex = UnicodeSupportVar(w).BitIndex => v = w
        /\ op = "UnicodeRanges" =>
              \A b \in WireBits :
                  \A i, j \in 1..n :
                      /\ supports[i] /\ SupportedUnicodeRanges[i].BitIndex = b
                      /\ supports[j] /\ SupportedUnicodeRanges[j].BitIndex = b
                      => i = j

C19_Witness ==
    /\ op = "UnicodeRanges"
    /\ WireBits = {122}
    /\ \E i \in 1..Len(SupportedUnicodeRanges) :
          /\ SupportedUnicodeRanges[i].BitIndex = 122
          /\ supports[i]
          /\ out = Reported(SupportedUnicodeRanges[i])


\* The bytes parseTableFvar has asked for once it has read the header and
\* the AxisCount axis records: it reads each axis as a 20-byte VariationAxis.
AxesReadEnd == 16 + Declared.AxisCount * 20

C18_CountsMatchHeader ==
    (op = "parseTableFvar" /\ err = "nil") =>
        /\ fvar # Nil
        /\ fvar.Header = Declared
        /\ Len(fvar.Axis) = fvar.Header.AxisCount
        /\ Len(fvar.Instance) = fvar.Header.InstanceCount
        /\ \A i \in 0..(fvar.Header.AxisCount - 1) :
              /\ i + 1 \in DOMAIN fvar.Axis
              /\ fvar.Axis[i + 1] = decodeStruct(VariationAxisFields, buf, 16 + i * 20)

\* C18 witness: a table with two axes, the first record of the buffer first.
C18_Witness ==
    /\ op = "parseTableFvar"
    /\ err = "nil"
    /\ fvar # Nil
    /\ fvar.Header.AxisCount = 2
    /\ Len(fvar.Axis) = 2
    /\ fvar.Axis[1].NameID = 257
    /\ fvar.Axis[2].NameID = 258


\* The accessor calls of a decoded table.
Accessors == {"TableOS2.Bytes", "TableFvar.Bytes", "WeightClass", "WidthClass",
              "FontStyle", "UnicodeRanges"}

\* C15: a successful decode of an OS/2 or fvar table retains the complete
\* input buffer, bytes past the last one read included, and Bytes() returns
\* it; a decode leaves the table of the other kind as it was, and no accessor
\* (Bytes, WeightClass, WidthClass, FontStyle, UnicodeRanges) changes a
\* decoded field or the retained bytes of either table.
C15_BytesVerbatimAndFrame ==
    [][ /\ (op' = "parseTableOS2" /\ err' = "nil") =>
              (os2' # Nil /\ os2'.bytes = buf' /\ fvar' = fvar)
        /\ (op' = "parseTableFvar" /\ err' = "nil") =>
              (fvar' # Nil /\ fvar'.bytes = buf' /\ os2' = os2)
        /\ op' \in Accessors => (os2' = os2 /\ fvar' = fvar /\ buf' = buf)
        /\ op' = "TableOS2.Bytes" => out' = os2.bytes
        /\ op' = "TableFvar.Bytes" => out' = fvar.bytes
        /\ (op' = "TableOS2.Bytes" /\ op = "parseTableOS2") => out' = buf
        /\ (op' = "TableFvar.Bytes" /\ op = "parseTableFvar") => out' = buf
      ]_vars

\* C15 witness: Bytes() has returned a buffer longer than what the decoder read.
C15_Witness ==
    /\ op = "TableOS2.Bytes"
    /\ consumed = 68
    /\ Len(out) = OS2FullLen + MaxExtra
    /\ out = os2.bytes
    /\ err = "nil"


\* The tables of the font of the last Info call, in the order name, fvar, OS/2.
PresentTags == SelectSeq(<<TagName, TagFvar, TagOS2>>, LAMBDA t : info.font[t] # {})

\* The error decoding table `tag` of that font gives ("nil" for none).
DecodeError(tag) ==
    LET x == CHOOSE v \in info.font[tag] : TRUE
    IN  CASE tag = TagName -> x.err
          [] tag = TagFvar -> parseTableFvar(x, intSize).err
          [] tag = TagOS2 -> parseTableOS2(x).err

\* C20: Info decodes the tables the font has in the order name, fvar, OS/2 and
\* stops at the first decode error: it returns that error, prints nothing and
\* decodes no later table; without an error it prints once and returns nil; and
\* when fvar and OS/2 both decode, the font_weight printed is the OS/2 table's
\* WeightClass(), whatever the fvar weight axis gave.
C20_InfoOrderAndFirstError ==
    op = "Info" =>
        LET failing == {k \in 1..Len(PresentTags) : DecodeError(PresentTags[k]) # "nil"}
        IN  IF failing # {} THEN
                LET k == CHOOSE x \in failing : \A y \in failing : x <= y
                IN  /\ info.decoded = SubSeq(PresentTags, 1, k)
                    /\ info.ret = DecodeError(PresentTags[k])
                    /\ info.printed = <<>>
            ELSE
                /\ info.decoded = PresentTags
                /\ info.ret = "nil"
                /\ Len(info.printed) = 1
                /\ info.font[TagOS2] # {} =>
                      info.printed[1]["font_weight"]
                          = WeightClass(parseTableOS2(CHOOSE b \in info.font[TagOS2] : TRUE).table)

\* C20 witness: the name table names the axis "wght", the fvar table fails to
\* decode, and the OS/2 table that follows is left alone.
C20_Witness ==
    /\ op = "Info"
    /\ info.font[TagOS2] # {}
    /\ info.decoded = <<TagName, TagFvar>>
    /\ info.ret = "unexpected EOF"
    /\ info.printed = <<>>

\* C20, second case: fvar's weight axis gave "400" and OS/2 prints "700".
C20_OverrideReached ==
    /\ op = "Info"
    /\ info.decoded = <<TagName, TagFvar, TagOS2>>
    /\ info.ret = "nil"
    /\ Lookup(info.data, 257) = "wght"
    /\ info.printed[1]["font_weight"] = "700"


\* The catalog as package initialisation left it.
DeclaredCatalog == CHOOSE c \in InitialCatalogs : Len(c) = Len(SupportedUnicodeRanges)

\* What a call returns when nothing else runs.
Alone(call, arg) ==
    CASE call = "UnicodeRanges" -> UnicodeRanges(arg, DeclaredCatalog)
      [] call = "parseTableOS2" ->
            [table |-> parseTableOS2(arg).table, err |-> parseTableOS2(arg).err]
      [] call = "parseTableFvar" ->
            [table |-> parseTableFvar(arg, intSize).table,
             err |-> parseTableFvar(arg, intSize).err]

\* C17: however the steps of concurrent OS/2 decodes, fvar decodes and
\* UnicodeRanges() calls interleave, SupportedUnicodeRanges and its entries
\* stay as declared, and every call that has returned has returned what it
\* returns when run alone.
C17_ConcurrentReadOnly ==
    /\ SupportedUnicodeRanges \in InitialCatalogs
    /\ \A g \in DOMAIN gor :
          gor[g].pc = "done" => gor[g].result = Alone(gor[g].call, gor[g].arg)

\* C17 witness: a UnicodeRanges call has returned its ranges while a second
\* call, on another table, is in the middle of its loop over the same slice.
C17_Witness ==
    /\ Len(gor) = 2
    /\ gor[1].call = "UnicodeRanges" /\ gor[2].call = "UnicodeRanges"
    /\ gor[1].arg # gor[2].arg
    /\ gor[1].pc = "done"
    /\ gor[1].result = <<"U+0600-06FF", "U+0750-077F", "U+A500-A63F">>
    /\ gor[2].pc = "running"
    /\ gor[2].i = 14
    /\ Len(gor[2].ranges) > 0

====
